---------------------------- MODULE Spec2Model ----------------------------
(***************************************************************************)
(* Peer-Tutoring: the availability/conflict engine, fair tutor selection   *)
(* and the booking transaction (app/models.py, app/student_routes.py),     *)
(* with the tutor and admin handlers that touch bookings                   *)
(* (app/tutor_routes.py, app/admin_routes.py).                             *)
(*                                                                         *)
(* Time is counted in ticks.  A day has DayLen ticks, a datetime is        *)
(* date * DayLen + time-of-day, and the configured slot length             *)
(* (BOOKING_SLOT_MINUTES) is SlotLen ticks.                                *)
(***************************************************************************)
EXTENDS Integers, Sequences, FiniteSets, TLC

\* ------------------------------------------------------------- bounds
MaxBookings == 2
DayLen == 4
MaxSlotLen == 3

\* -------------------------------------------------- program constants
SlotLen == 2
CutoffTime == 3
ReasonCap == 255

None == -1

Tutors == {1, 2}
Subjects == {1}
BookReqs == {"r1", "r2"}
Times == 0..(DayLen - 1)
Today == 0

VARIABLES
    tutor_ids,            \* ids of the rows of table tutors
    is_active,            \* Tutor.is_active, by tutor id
    tutor_subjects,       \* rows of table tutor_subjects: <<tutor_id, subject_id>>
    weekly_availability,  \* rows of table weekly_availability
    tutor_exceptions,     \* rows of table tutor_exceptions
    bookings,             \* committed rows of table bookings
    next_booking_id,      \* the id the next inserted Booking gets
    slot_minutes,         \* config BOOKING_SLOT_MINUTES, in ticks
    utcnow,               \* the clock read by cancel_booking
    pc,                   \* position of each book request
    req,                  \* locals of each book request (form, session, flash)
    committed,            \* ids of the bookings whose commit returned
    booking_notifications,\* calls of send_booking_notifications, by booking id
    cancel_notifications, \* calls of send_cancellation_notification, by booking id
    portal_flash,         \* the flash of the last tutor or admin portal response
    slot_check,           \* the last is_available_for_slot call and its result
    call                  \* the last call of another function or read-only
                          \* endpoint, with its arguments and its result

store == <<tutor_ids, is_active, tutor_subjects, weekly_availability,
           tutor_exceptions, bookings, next_booking_id>>
vars == <<tutor_ids, is_active, tutor_subjects, weekly_availability,
          tutor_exceptions, bookings, next_booking_id, slot_minutes, utcnow,
          pc, req, committed, booking_notifications, cancel_notifications,
          portal_flash, slot_check, call>>
\* The results of the calls made on a store that stays as it is.
probes == <<slot_check, call>>

\* ------------------------------------------------------ datetime helpers
Combine(date, time) == date * DayLen + time
DateOf(d) == d \div DayLen
TimeOf(d) == d % DayLen
Weekday(date) == date % 7

\* ---------------------------------------------------------------- models
\* Tutor.bookings: the relationship, loaded from the committed rows.
BookingsOf(t) == {b \in bookings : b.tutor_id = t}

total_bookings(t) == Cardinality({b \in BookingsOf(t) : ~b.is_canceled})

availability_for_day(t, weekday) ==
    {a \in weekly_availability : a.tutor_id = t /\ a.day_of_week = weekday}

\* WeeklyAvailability.generate_slots: the while loop, from cursor on.
RECURSIVE generate_slots_from(_, _, _)
generate_slots_from(cursor, end_dt, step) ==
    IF cursor + step <= end_dt
    THEN <<<<cursor, cursor + step>>>>
             \o generate_slots_from(cursor + step, end_dt, step)
    ELSE <<>>

\* generate_slots with the last slot cut at the block's end.
generate_slots_truncated(block, date, slot_len) ==
    LET start_dt == Combine(date, block.start_time)
        end_dt == Combine(date, block.end_time)
        n == (end_dt - start_dt + slot_len - 1) \div slot_len
    IN  [k \in 1..n |->
            <<start_dt + (k - 1) * slot_len,
              IF start_dt + k * slot_len <= end_dt
              THEN start_dt + k * slot_len ELSE end_dt>>]

generate_slots(block, date, slot_len) ==
    generate_slots_from(Combine(date, block.start_time),
                        Combine(date, block.end_time), slot_len)

is_full_day(exc) == exc.start_time = None /\ exc.end_time = None

\* overlaps with a blackout that has no times taken as blocking nothing.
overlaps_times_only(exc, start_dt, end_dt) ==
    IF exc.date # DateOf(start_dt) THEN FALSE
    ELSE IF exc.start_time = None \/ exc.end_time = None THEN FALSE
    ELSE start_dt < Combine(exc.date, exc.end_time)
         /\ end_dt > Combine(exc.date, exc.start_time)

overlaps(exc, start_dt, end_dt) ==
    IF exc.date # DateOf(start_dt) THEN FALSE
    ELSE IF is_full_day(exc) THEN TRUE
    ELSE IF exc.start_time = None \/ exc.end_time = None THEN TRUE
    ELSE start_dt < Combine(exc.date, exc.end_time)
         /\ end_dt > Combine(exc.date, exc.start_time)

\* is_available_for_slot with the booking conflict taken on closed intervals.
is_available_for_slot_closed(t, start_dt, end_dt) ==
    IF \E exc \in tutor_exceptions :
           exc.tutor_id = t /\ overlaps(exc, start_dt, end_dt)
    THEN FALSE
    ELSE IF ~(\E block \in availability_for_day(t, Weekday(DateOf(start_dt))) :
                  block.start_time <= TimeOf(start_dt)
                  /\ block.end_time >= TimeOf(end_dt))
    THEN FALSE
    ELSE IF \E b \in BookingsOf(t) :
                ~b.is_canceled /\ b.start_time <= end_dt /\ b.end_time >= start_dt
    THEN FALSE
    ELSE TRUE

is_available_for_slot(t, start_dt, end_dt) ==
    IF \E exc \in tutor_exceptions :
           exc.tutor_id = t /\ overlaps(exc, start_dt, end_dt)
    THEN FALSE
    ELSE IF ~(\E block \in availability_for_day(t, Weekday(DateOf(start_dt))) :
                  block.start_time <= TimeOf(start_dt)
                  /\ block.end_time >= TimeOf(end_dt))
    THEN FALSE
    ELSE IF \E b \in BookingsOf(t) :
                ~b.is_canceled /\ b.start_time < end_dt /\ b.end_time > start_dt
    THEN FALSE
    ELSE TRUE

\* available_tutors_for_slot without the filter on Tutor.is_active.
available_tutors_for_slot_any_status(subject_id, start_dt, end_dt) ==
    {t \in tutor_ids :
        /\ <<t, subject_id>> \in tutor_subjects
        /\ is_available_for_slot(t, start_dt, end_dt)}

available_tutors_for_slot(subject_id, start_dt, end_dt) ==
    {t \in tutor_ids :
        /\ <<t, subject_id>> \in tutor_subjects
        /\ is_active[t]
        /\ is_available_for_slot(t, start_dt, end_dt)}

\* collect_open_slots: the appends of the three loops, each as
\* <<slot start, tutor, block>>.
open_slot_appends(subject_id, target_date) ==
    LET tutors == {t \in tutor_ids :
                      <<t, subject_id>> \in tutor_subjects /\ is_active[t]}
        hits(t, block) ==
            LET gs == generate_slots(block, target_date, slot_minutes) IN
            {<<gs[i][1], t, block.id>> :
                i \in {j \in DOMAIN gs :
                          is_available_for_slot(t, gs[j][1], gs[j][2])}}
    IN  UNION {UNION {hits(t, block) :
                         block \in availability_for_day(t, Weekday(target_date))} :
                  t \in tutors}

\* collect_open_slots with the key made before the tutor is checked.
collect_open_slots_key_first(subject_id, target_date) ==
    LET tutors == {t \in tutor_ids :
                      <<t, subject_id>> \in tutor_subjects /\ is_active[t]}
        starts(t, block) ==
            LET gs == generate_slots(block, target_date, slot_minutes) IN
            {gs[i][1] : i \in DOMAIN gs}
        keys == UNION {UNION {starts(t, block) :
                         block \in availability_for_day(t, Weekday(target_date))} :
                  t \in tutors}
        appends == open_slot_appends(subject_id, target_date)
    IN  [s \in keys |-> {<<a[2], a[3]>> : a \in {x \in appends : x[1] = s}}]

\* The dict collect_open_slots returns: slot start -> the tutors appended
\* under it, each with the block that gave the slot.
collect_open_slots(subject_id, target_date) ==
    LET appends == open_slot_appends(subject_id, target_date) IN
    [s \in {a[1] : a \in appends} |->
        {<<a[2], a[3]>> : a \in {x \in appends : x[1] = s}}]

\* pick_fair_tutor without the filter on the least count: random.choice over
\* all the candidates.
pick_fair_tutor_any(candidates) == candidates

\* pick_fair_tutor counting every booking of a tutor, canceled ones too.
pick_fair_tutor_all_bookings(candidates) ==
    {t \in candidates :
        \A u \in candidates :
            Cardinality(BookingsOf(t)) <= Cardinality(BookingsOf(u))}

\* The tutors pick_fair_tutor chooses among: random.choice(smallest).
pick_fair_tutor(candidates) ==
    {t \in candidates :
        \A u \in candidates : total_bookings(t) <= total_bookings(u)}

\* -------------------------------------------------------- student_routes
\* The dates and times a form's strings parse to (strptime '%Y-%m-%d', '%H:%M');
\* a string outside the domain raises ValueError.
DateStrings == [k \in {"d0", "d1", "d2"} |->
                   CASE k = "d0" -> 0 [] k = "d1" -> 1 [] k = "d2" -> 2]
TimeStrings == [k \in {"t0", "t1", "t2", "t3", "t4"} |->
                   CASE k = "t0" -> 0 [] k = "t1" -> 1 [] k = "t2" -> 2
                     [] k = "t3" -> 3 [] k = "t4" -> 4]
\* int(subject_id_raw); a string outside the domain raises ValueError.
IntStrings == [k \in {"1", "9"} |-> IF k = "1" THEN 1 ELSE 9]

\* str.strip() and _normalize_phone (keep the digits) on the strings a form holds.
strip == [k \in {"", " ", "Ann"} |-> IF k = "Ann" THEN "Ann" ELSE ""]
normalize_phone == [k \in {"", "n/a", "555-0100"} |->
                       IF k = "555-0100" THEN "5550100" ELSE ""]

\* _minimum_bookable_date with the cutoff hour itself still counted as before.
minimum_bookable_date_after(now) ==
    IF now.time > CutoffTime THEN now.date + 2 ELSE now.date + 1

minimum_bookable_date(now) ==
    IF now.time >= CutoffTime THEN now.date + 2 ELSE now.date + 1

\* _booking_window_status turning down the earliest bookable date as well.
booking_window_status_inclusive(target_date, now) ==
    LET min_date == minimum_bookable_date(now) IN
    IF target_date <= min_date
    THEN [allowed |-> FALSE,
          message |-> IF target_date <= now.date
                      THEN "Same-day bookings are not available."
                      ELSE "After 10:00 PM Pacific, next-day sessions close.",
          min_date |-> min_date]
    ELSE [allowed |-> TRUE, message |-> "", min_date |-> min_date]

\* The message's tail, "Earliest available date is ...", is the field min_date.
booking_window_status(target_date, now) ==
    LET min_date == minimum_bookable_date(now) IN
    IF target_date < min_date
    THEN [allowed |-> FALSE,
          message |-> IF target_date <= now.date
                      THEN "Same-day bookings are not available."
                      ELSE "After 10:00 PM Pacific, next-day sessions close.",
          min_date |-> min_date]
    ELSE [allowed |-> TRUE, message |-> "", min_date |-> min_date]

Flash(message, category) == [message |-> message, category |-> category]
NoFlash == Flash("", "")
FlashIncomplete == Flash("Please complete all booking details.", "danger")
FlashBadSubject == Flash("Invalid subject selection.", "danger")
FlashNoSubject == Flash("Selected subject no longer exists.", "danger")
FlashBadDate == Flash("Invalid date or time value.", "danger")
\* The flash for "no tutor free" worded as the one for a failed commit.
FlashJustBooked_as_unable ==
    Flash("Unable to confirm booking. Please try another time slot.", "danger")

FlashJustBooked ==
    Flash("Sorry, that time was just booked. Please choose another slot.", "warning")
FlashUnableToConfirm ==
    Flash("Unable to confirm booking. Please try another time slot.", "danger")

\* What a book request holds: the parsed form and the tutor of the Booking
\* added to its session while it runs (dropped when it returns), then the id
\* of the Booking it committed and the flash and page of its response.  Kept
\* for the properties and not read by the handler: cause, why the request
\* ended, and raced, whether another request held an uncommitted Booking for
\* the same tutor and start time when one of the two committed.
IdleReq == [subject_id |-> None, start_time |-> None, end_time |-> None,
            tutor_id |-> None, booking_id |-> None, flash |-> NoFlash,
            response |-> "", cause |-> "none", raced |-> FALSE]

Rejected(flash, cause) ==
    [IdleReq EXCEPT !.flash = flash, !.cause = cause, !.response = "booking.html"]

\* book, lines 106-154: validation, the window gate, the availability read
\* and the selection.  The result is the request's locals; tutor_id is still
\* None when the request goes on to pick_fair_tutor.
book_validate(form, now) ==
    IF ~(strip[form.student_name] # "" /\ normalize_phone[form.student_phone] # ""
         /\ form.subject_id # "" /\ form.date # "" /\ form.start_time # "")
    THEN Rejected(FlashIncomplete, "validation")
    ELSE IF form.subject_id \notin DOMAIN IntStrings
    THEN Rejected(FlashBadSubject, "validation")
    ELSE IF IntStrings[form.subject_id] \notin Subjects
    THEN Rejected(FlashNoSubject, "validation")
    ELSE IF form.date \notin DOMAIN DateStrings
            \/ form.start_time \notin DOMAIN TimeStrings
            \/ TimeStrings[form.start_time] >= DayLen
    THEN Rejected(FlashBadDate, "validation")
    ELSE LET target_date == DateStrings[form.date]
             window == booking_window_status(target_date, now)
             start_dt == Combine(target_date, TimeStrings[form.start_time])
         IN  IF ~window.allowed
             THEN Rejected(Flash(window.message, "warning"), "window")
             ELSE [IdleReq EXCEPT !.subject_id = IntStrings[form.subject_id],
                                  !.start_time = start_dt,
                                  !.end_time = start_dt + slot_minutes]

\* The forms and clock readings the requests are drawn from.
GoodForm == [student_name |-> "Ann", student_phone |-> "555-0100",
             subject_id |-> "1", date |-> "d1", start_time |-> "t0"]
FormInputs ==
    {[GoodForm EXCEPT !.date = d, !.start_time = t] :
        d \in {"d0", "d1"}, t \in {"t0", "t1"}}
    \cup {[GoodForm EXCEPT !.student_phone = "n/a"],
          [GoodForm EXCEPT !.subject_id = "abc"],
          [GoodForm EXCEPT !.subject_id = "9"],
          [GoodForm EXCEPT !.start_time = "noon"]}
Nows == {[date |-> Today, time |-> 0], [date |-> Today, time |-> CutoffTime]}

\* The unique key as it would be if canceled rows released it.
KeyTaken_active_only(tutor_id, start_time) ==
    \E b \in bookings :
        ~b.is_canceled /\ b.tutor_id = tutor_id /\ b.start_time = start_time

KeyTaken(tutor_id, start_time) ==
    \E b \in bookings : b.tutor_id = tutor_id /\ b.start_time = start_time

\* The requests that have added a Booking to their session and not committed.
InFlight == {q \in BookReqs : pc[q] = "added"}

\* The bound on the table: a request goes on to the insert only while the
\* inserts that can still succeed keep the table within MaxBookings rows.
RoomFor(tutor_id, start_time) ==
    \/ KeyTaken(tutor_id, start_time)
    \/ Cardinality(bookings)
         + Cardinality({q \in InFlight :
                          ~KeyTaken(req[q].tutor_id, req[q].start_time)})
       < MaxBookings

\* book with the Booking inserted before the candidates are looked at: a
\* request that finds no tutor leaves a row without one.
BookSelect_insert_first(r) ==
    /\ pc[r] \in {"idle", "done"}
    /\ \E form \in FormInputs, now \in Nows :
         LET v == book_validate(form, now)
             candidates ==
                 available_tutors_for_slot(v.subject_id, v.start_time, v.end_time)
         IN  IF v.cause # "none"
             THEN /\ pc' = [pc EXCEPT ![r] = "done"]
                  /\ req' = [req EXCEPT ![r] = v]
                  /\ UNCHANGED bookings
             ELSE IF pick_fair_tutor(candidates) = {}
             THEN /\ pc' = [pc EXCEPT ![r] = "done"]
                  /\ req' = [req EXCEPT ![r] = Rejected(FlashJustBooked, "capacity")]
                  /\ bookings' = bookings \cup
                        {[id |-> 0, tutor_id |-> None, subject_id |-> v.subject_id,
                          student_name |-> "Ann", student_phone |-> "5550100",
                          start_time |-> v.start_time, end_time |-> v.end_time,
                          is_canceled |-> FALSE, canceled_at |-> None,
                          cancel_reason |-> None]}
             ELSE \E tutor \in pick_fair_tutor(candidates) :
                      /\ RoomFor(tutor, v.start_time)
                      /\ pc' = [pc EXCEPT ![r] = "added"]
                      /\ req' = [req EXCEPT ![r] = [v EXCEPT !.tutor_id = tutor]]
                      /\ UNCHANGED bookings
    /\ UNCHANGED probes
    /\ UNCHANGED <<tutor_ids, is_active, tutor_subjects, weekly_availability,
                   tutor_exceptions, next_booking_id, slot_minutes, utcnow,
                   committed, booking_notifications, cancel_notifications,
                   portal_flash>>

\* book, lines 106-164: up to db.session.add(booking).
BookSelect(r) ==
    /\ pc[r] \in {"idle", "done"}
    /\ \E form \in FormInputs, now \in Nows :
         LET v == book_validate(form, now)
             candidates ==
                 available_tutors_for_slot(v.subject_id, v.start_time, v.end_time)
         IN  IF v.cause # "none"
             THEN /\ pc' = [pc EXCEPT ![r] = "done"]
                  /\ req' = [req EXCEPT ![r] = v]
             ELSE IF pick_fair_tutor(candidates) = {}
             THEN /\ pc' = [pc EXCEPT ![r] = "done"]
                  /\ req' = [req EXCEPT ![r] = Rejected(FlashJustBooked, "capacity")]
             ELSE \E tutor \in pick_fair_tutor(candidates) :
                      /\ RoomFor(tutor, v.start_time)
                      /\ pc' = [pc EXCEPT ![r] = "added"]
                      /\ req' = [req EXCEPT ![r] = [v EXCEPT !.tutor_id = tutor]]
    /\ UNCHANGED probes
    /\ UNCHANGED <<store, slot_minutes, utcnow, committed,
                   booking_notifications, cancel_notifications, portal_flash>>

NewBooking(r) ==
    [id |-> next_booking_id, tutor_id |-> req[r].tutor_id,
     subject_id |-> req[r].subject_id, student_name |-> "Ann",
     student_phone |-> "5550100", start_time |-> req[r].start_time,
     end_time |-> req[r].end_time, is_canceled |-> FALSE,
     canceled_at |-> None, cancel_reason |-> None]

\* The requests in flight for the same tutor and start time as r.
Rivals(r) == {q \in InFlight \ {r} : /\ req[q].tutor_id = req[r].tutor_id
                                     /\ req[q].start_time = req[r].start_time}

\* book retrying inside the request: after a failure on the unique key it
\* takes another free tutor and attempts the insert again.
BookCommit_retry(r) ==
    /\ pc[r] = "added"
    /\ \E storage_error \in BOOLEAN :
         LET raced == req[r].raced \/ Rivals(r) # {}
             taken == KeyTaken(req[r].tutor_id, req[r].start_time)
             others == available_tutors_for_slot(req[r].subject_id,
                           req[r].start_time, req[r].end_time)
                       \ {req[r].tutor_id}
             mark(q, old) == IF q \in Rivals(r) THEN [old EXCEPT !.raced = TRUE]
                             ELSE old
         IN  IF ~storage_error /\ taken /\ others # {}
             THEN /\ \E tutor \in others :
                       /\ RoomFor(tutor, req[r].start_time)
                       /\ req' = [req EXCEPT ![r].tutor_id = tutor]
                  /\ UNCHANGED <<pc, bookings, next_booking_id, committed>>
             ELSE IF storage_error \/ taken
             THEN /\ pc' = [pc EXCEPT ![r] = "done"]
                  /\ req' = [q \in BookReqs |->
                              IF q = r
                              THEN [Rejected(FlashUnableToConfirm,
                                             IF storage_error THEN "storage"
                                             ELSE "unique")
                                      EXCEPT !.raced = raced]
                              ELSE mark(q, req[q])]
                  /\ UNCHANGED <<bookings, next_booking_id, committed>>
             ELSE /\ bookings' = bookings \cup {NewBooking(r)}
                  /\ next_booking_id' = next_booking_id + 1
                  /\ committed' = committed \cup {next_booking_id}
                  /\ pc' = [pc EXCEPT ![r] = "committed"]
                  /\ req' = [q \in BookReqs |->
                              IF q = r
                              THEN [req[r] EXCEPT !.booking_id = next_booking_id,
                                                  !.cause = "ok",
                                                  !.raced = raced]
                              ELSE mark(q, req[q])]
    /\ UNCHANGED probes
    /\ UNCHANGED <<tutor_ids, is_active, tutor_subjects, weekly_availability,
                   tutor_exceptions, slot_minutes, utcnow,
                   booking_notifications, cancel_notifications, portal_flash>>

\* db.session.commit() without the rollback: a commit that raises after the
\* INSERT went through leaves the row.
BookCommit_no_rollback(r) ==
    /\ pc[r] = "added"
    /\ \E storage_error \in BOOLEAN :
         LET raced == req[r].raced \/ Rivals(r) # {}
             taken == KeyTaken(req[r].tutor_id, req[r].start_time)
             mark(q, old) == IF q \in Rivals(r) THEN [old EXCEPT !.raced = TRUE]
                             ELSE old
         IN  IF storage_error \/ taken
             THEN /\ pc' = [pc EXCEPT ![r] = "done"]
                  /\ req' = [q \in BookReqs |->
                              IF q = r
                              THEN [Rejected(FlashUnableToConfirm,
                                             IF storage_error THEN "storage"
                                             ELSE "unique")
                                      EXCEPT !.raced = raced]
                              ELSE mark(q, req[q])]
                  /\ bookings' = IF taken THEN bookings
                                 ELSE bookings \cup {NewBooking(r)}
                  /\ next_booking_id' = IF taken THEN next_booking_id
                                        ELSE next_booking_id + 1
                  /\ UNCHANGED committed
             ELSE /\ bookings' = bookings \cup {NewBooking(r)}
                  /\ next_booking_id' = next_booking_id + 1
                  /\ committed' = committed \cup {next_booking_id}
                  /\ pc' = [pc EXCEPT ![r] = "committed"]
                  /\ req' = [q \in BookReqs |->
                              IF q = r
                              THEN [req[r] EXCEPT !.booking_id = next_booking_id,
                                                  !.cause = "ok",
                                                  !.raced = raced]
                              ELSE mark(q, req[q])]
    /\ UNCHANGED probes
    /\ UNCHANGED <<tutor_ids, is_active, tutor_subjects, weekly_availability,
                   tutor_exceptions, slot_minutes, utcnow,
                   booking_notifications, cancel_notifications, portal_flash>>

\* book, lines 165-170: db.session.commit().  The INSERT fails on the unique
\* key (tutor_id, start_time) or on any other storage error; either way the
\* session is rolled back and the same flash is shown.
BookCommit(r) ==
    /\ pc[r] = "added"
    /\ \E storage_error \in BOOLEAN :
         LET raced == req[r].raced \/ Rivals(r) # {}
             mark(q, old) == IF q \in Rivals(r) THEN [old EXCEPT !.raced = TRUE]
                             ELSE old
         IN  IF storage_error \/ KeyTaken(req[r].tutor_id, req[r].start_time)
             THEN /\ pc' = [pc EXCEPT ![r] = "done"]
                  /\ req' = [q \in BookReqs |->
                              IF q = r
                              THEN [Rejected(FlashUnableToConfirm,
                                             IF storage_error THEN "storage"
                                             ELSE "unique")
                                      EXCEPT !.raced = raced]
                              ELSE mark(q, req[q])]
                  /\ UNCHANGED <<bookings, next_booking_id, committed>>
             ELSE /\ bookings' = bookings \cup {NewBooking(r)}
                  /\ next_booking_id' = next_booking_id + 1
                  /\ committed' = committed \cup {next_booking_id}
                  /\ pc' = [pc EXCEPT ![r] = "committed"]
                  /\ req' = [q \in BookReqs |->
                              IF q = r
                              THEN [req[r] EXCEPT !.booking_id = next_booking_id,
                                                  !.cause = "ok",
                                                  !.raced = raced]
                              ELSE mark(q, req[q])]
    /\ UNCHANGED probes
    /\ UNCHANGED <<tutor_ids, is_active, tutor_subjects, weekly_availability,
                   tutor_exceptions, slot_minutes, utcnow,
                   booking_notifications, cancel_notifications, portal_flash>>

\* book holding its response back while another request has an uncommitted
\* Booking in its session.
BookNotify_waits(r) ==
    /\ pc[r] = "committed"
    /\ InFlight \ {r} = {}
    /\ booking_notifications' =
           [booking_notifications EXCEPT ![req[r].booking_id] = @ + 1]
    /\ pc' = [pc EXCEPT ![r] = "done"]
    /\ req' = [req EXCEPT ![r] =
                 [IdleReq EXCEPT !.booking_id = req[r].booking_id,
                                 !.cause = "ok",
                                 !.raced = req[r].raced,
                                 !.response =
                                    IF req[r].tutor_id \in tutor_ids
                                    THEN "confirmation.html" ELSE "500"]]
    /\ UNCHANGED probes
    /\ UNCHANGED <<store, slot_minutes, utcnow, committed,
                   cancel_notifications, portal_flash>>

\* book going to the confirmation page without calling the notifier.
BookNotify_skipped(r) ==
    /\ pc[r] = "committed"
    /\ pc' = [pc EXCEPT ![r] = "done"]
    /\ req' = [req EXCEPT ![r] =
                 [IdleReq EXCEPT !.booking_id = req[r].booking_id,
                                 !.cause = "ok",
                                 !.raced = req[r].raced,
                                 !.response =
                                    IF req[r].tutor_id \in tutor_ids
                                    THEN "confirmation.html" ELSE "500"]]
    /\ UNCHANGED probes
    /\ UNCHANGED <<store, slot_minutes, utcnow, committed,
                   booking_notifications, cancel_notifications, portal_flash>>

\* book, lines 172-183: send_booking_notifications(booking), then the
\* confirmation page.  booking.tutor is None when the tutor row is gone, and
\* the notifier then raises on tutor.phone.
BookNotify(r) ==
    /\ pc[r] = "committed"
    /\ booking_notifications' =
           [booking_notifications EXCEPT ![req[r].booking_id] = @ + 1]
    /\ pc' = [pc EXCEPT ![r] = "done"]
    /\ req' = [req EXCEPT ![r] =
                 [IdleReq EXCEPT !.booking_id = req[r].booking_id,
                                 !.cause = "ok",
                                 !.raced = req[r].raced,
                                 !.response =
                                    IF req[r].tutor_id \in tutor_ids
                                    THEN "confirmation.html" ELSE "500"]]
    /\ UNCHANGED probes
    /\ UNCHANGED <<store, slot_minutes, utcnow, committed,
                   cancel_notifications, portal_flash>>

\* ---------------------------------------------------------- tutor_routes
FlashLogin == Flash("Please log in to access the tutor portal.", "warning")
FlashNotOwner == Flash("You cannot modify another tutor's booking.", "danger")
FlashAlreadyCanceled == Flash("That booking is already canceled.", "info")
FlashCanceled ==
    Flash("Booking canceled. Please notify the student if possible.", "info")
NotFound == Flash("404", "abort")

\* request.form cancel_reason, by its length after strip().
ReasonLens == {ReasonCap + 1}

\* The reason stored whole, however long.
truncate_reason_whole(len) == IF len = 0 THEN None ELSE len

\* reason[:255] if reason else None, on lengths.
truncate_reason(len) ==
    IF len = 0 THEN None ELSE IF len > ReasonCap THEN ReasonCap ELSE len

\* cancel_booking without the early return on booking.is_canceled.
cancel_flash_no_guard(session_tutor, booking_id) ==
    LET found == {b \in bookings : b.id = booking_id} IN
    IF session_tutor \notin tutor_ids THEN FlashLogin
    ELSE IF found = {} THEN NotFound
    ELSE IF \E b \in found : b.tutor_id # session_tutor THEN FlashNotOwner
    ELSE FlashCanceled

\* cancel_booking: the flash the handler ends with; session_tutor is
\* session['tutor_id'].
cancel_flash(session_tutor, booking_id) ==
    LET found == {b \in bookings : b.id = booking_id} IN
    IF session_tutor \notin tutor_ids THEN FlashLogin
    ELSE IF found = {} THEN NotFound
    ELSE IF \E b \in found : b.tutor_id # session_tutor THEN FlashNotOwner
    ELSE IF \E b \in found : b.is_canceled THEN FlashAlreadyCanceled
    ELSE FlashCanceled

\* cancel_booking: what the handler does to the store, the clock and the
\* notifier.
cancel_booking(session_tutor, booking_id, reason_len) ==
    IF cancel_flash(session_tutor, booking_id) # FlashCanceled
    THEN UNCHANGED <<bookings, utcnow, cancel_notifications>>
    ELSE /\ bookings' =
              {IF b.id = booking_id
               THEN [b EXCEPT !.is_canceled = TRUE,
                              !.canceled_at = utcnow,
                              !.cancel_reason = truncate_reason(reason_len)]
               ELSE b : b \in bookings}
         /\ utcnow' = utcnow + 1
         /\ cancel_notifications' =
                [cancel_notifications EXCEPT ![booking_id] = @ + 1]

\* A cancel request at the tutor portal, with its response.
CancelBooking ==
    /\ \E session_tutor \in Tutors, booking_id \in 1..MaxBookings,
          reason_len \in ReasonLens :
         /\ cancel_booking(session_tutor, booking_id, reason_len)
         /\ portal_flash' = cancel_flash(session_tutor, booking_id)
    /\ UNCHANGED probes
    /\ UNCHANGED <<tutor_ids, is_active, tutor_subjects, weekly_availability,
                   tutor_exceptions, next_booking_id, slot_minutes, pc, req,
                   committed, booking_notifications>>

\* A cancel request as the booking requests meet it: the store's side alone.
Cancel ==
    /\ \E session_tutor \in Tutors, booking_id \in 1..MaxBookings,
          reason_len \in ReasonLens :
         /\ cancel_flash(session_tutor, booking_id) = FlashCanceled
         /\ cancel_booking(session_tutor, booking_id, reason_len)
    /\ UNCHANGED probes
    /\ UNCHANGED <<tutor_ids, is_active, tutor_subjects, weekly_availability,
                   tutor_exceptions, next_booking_id, slot_minutes, pc, req,
                   committed, booking_notifications, portal_flash>>

\* ---------------------------------------------------------- admin_routes
FlashActivated == Flash("Tutor activated.", "info")
FlashDeactivated == Flash("Tutor deactivated.", "info")
FlashHasBookings ==
    Flash("Cannot delete tutor with existing bookings. Deactivate instead.", "warning")
FlashRemoved == Flash("Tutor removed.", "info")

toggle_tutor_active(tutor_id) ==
    IF tutor_id \notin tutor_ids
    THEN /\ portal_flash' = NotFound
         /\ UNCHANGED is_active
    ELSE /\ is_active' = [is_active EXCEPT ![tutor_id] = ~@]
         /\ portal_flash' = IF is_active[tutor_id] THEN FlashDeactivated
                            ELSE FlashActivated

ToggleTutorActive ==
    /\ \E tutor_id \in Tutors : toggle_tutor_active(tutor_id)
    /\ UNCHANGED probes
    /\ UNCHANGED <<tutor_ids, tutor_subjects, weekly_availability,
                   tutor_exceptions, bookings, next_booking_id, slot_minutes,
                   utcnow, pc, req, committed, booking_notifications,
                   cancel_notifications>>

\* delete_tutor without the refusal: the delete cascades to the bookings.
delete_tutor_cascade(tutor_id) ==
    IF tutor_id \notin tutor_ids
    THEN /\ portal_flash' = NotFound
         /\ UNCHANGED <<tutor_ids, tutor_subjects, weekly_availability,
                        tutor_exceptions, bookings>>
    ELSE /\ tutor_ids' = tutor_ids \ {tutor_id}
         /\ tutor_subjects' = {ts \in tutor_subjects : ts[1] # tutor_id}
         /\ weekly_availability' =
                {a \in weekly_availability : a.tutor_id # tutor_id}
         /\ tutor_exceptions' = {e \in tutor_exceptions : e.tutor_id # tutor_id}
         /\ bookings' = bookings \ BookingsOf(tutor_id)
         /\ portal_flash' = FlashRemoved

\* delete_tutor: db.session.delete(tutor) takes the tutor's blocks, exceptions
\* and tutor_subjects rows with it.
delete_tutor(tutor_id) ==
    IF tutor_id \notin tutor_ids
    THEN /\ portal_flash' = NotFound
         /\ UNCHANGED <<tutor_ids, tutor_subjects, weekly_availability,
                        tutor_exceptions, bookings>>
    ELSE IF BookingsOf(tutor_id) # {}
    THEN /\ portal_flash' = FlashHasBookings
         /\ UNCHANGED <<tutor_ids, tutor_subjects, weekly_availability,
                        tutor_exceptions, bookings>>
    ELSE /\ tutor_ids' = tutor_ids \ {tutor_id}
         /\ tutor_subjects' = {ts \in tutor_subjects : ts[1] # tutor_id}
         /\ weekly_availability' =
                {a \in weekly_availability : a.tutor_id # tutor_id}
         /\ tutor_exceptions' = {e \in tutor_exceptions : e.tutor_id # tutor_id}
         /\ bookings' = bookings \ BookingsOf(tutor_id)
         /\ portal_flash' = FlashRemoved

DeleteTutor ==
    /\ \E tutor_id \in Tutors : delete_tutor(tutor_id)
    /\ UNCHANGED probes
    /\ UNCHANGED <<is_active, next_booking_id, slot_minutes, utcnow, pc, req,
                   committed, booking_notifications, cancel_notifications>>

\* ------------------------------------------------------------------ Spec
NoCall == [called |-> FALSE]
NoQuery == [op |-> "none"]

\* Every tutor is active, teaches the subject and offers one block covering
\* the day after Today; nothing is booked.
Init ==
    /\ tutor_ids = Tutors
    /\ is_active = [t \in Tutors |-> TRUE]
    /\ tutor_subjects = {<<t, 1>> : t \in Tutors}
    /\ weekly_availability =
           {[id |-> t, tutor_id |-> t, day_of_week |-> Weekday(Today + 1),
             start_time |-> 0, end_time |-> DayLen - 1] : t \in Tutors}
    /\ tutor_exceptions = {}
    /\ bookings = {}
    /\ next_booking_id = 1
    /\ slot_minutes = SlotLen
    /\ utcnow = 1
    /\ pc = [r \in BookReqs |-> "idle"]
    /\ req = [r \in BookReqs |-> IdleReq]
    /\ committed = {}
    /\ booking_notifications = [i \in 1..MaxBookings |-> 0]
    /\ cancel_notifications = [i \in 1..MaxBookings |-> 0]
    /\ portal_flash = NoFlash
    /\ slot_check = NoCall
    /\ call = NoQuery

\* The booking requests, two at a time, and the cancellations.
Next ==
    \/ \E r \in BookReqs : BookSelect(r)
    \/ \E r \in BookReqs : BookCommit(r)
    \/ \E r \in BookReqs : BookNotify(r)
    \/ Cancel

Spec == Init /\ [][Next]_vars

\* The requests of Spec when every commit and every notifier call returns.
SpecFair ==
    /\ Init /\ [][Next]_vars
    /\ \A r \in BookReqs : WF_vars(BookCommit(r)) /\ WF_vars(BookNotify(r))

\* One booking request at a time, with the tutor and admin portals.
NextPortal ==
    \/ BookSelect("r1")
    \/ BookCommit("r1")
    \/ BookNotify("r1")
    \/ CancelBooking
    \/ ToggleTutorActive
    \/ DeleteTutor

SpecPortal == Init /\ [][NextPortal]_vars

\* ------------------------------------------------------------- SpecOffer
\* One booking request while the admin switches tutors on and off, from
\* stores in which not every tutor is active or teaches the subject.
InitOffer ==
    /\ tutor_ids = Tutors
    /\ is_active \in [Tutors -> BOOLEAN]
    /\ tutor_subjects \in SUBSET {<<t, 1>> : t \in Tutors}
    /\ weekly_availability =
           {[id |-> t, tutor_id |-> t, day_of_week |-> Weekday(Today + 1),
             start_time |-> 0, end_time |-> DayLen - 1] : t \in Tutors}
    /\ tutor_exceptions = {}
    /\ bookings = {}
    /\ next_booking_id = 1
    /\ slot_minutes = SlotLen
    /\ utcnow = 1
    /\ pc = [r \in BookReqs |-> "idle"]
    /\ req = [r \in BookReqs |-> IdleReq]
    /\ committed = {}
    /\ booking_notifications = [i \in 1..MaxBookings |-> 0]
    /\ cancel_notifications = [i \in 1..MaxBookings |-> 0]
    /\ portal_flash = NoFlash
    /\ slot_check = NoCall
    /\ call = NoQuery

NextOffer ==
    \/ BookSelect("r1")
    \/ BookCommit("r1")
    \/ BookNotify("r1")
    \/ ToggleTutorActive

SpecOffer == InitOffer /\ [][NextOffer]_vars

\* ------------------------------------------------------------- SpecAvail
\* Tutor.is_available_for_slot on its own: tutor 1 with blocks, exceptions
\* and bookings drawn from the rows below, asked about every interval.
AvailDates == {1, 2}
BoundedSubsets(S, n) == {T \in SUBSET S : Cardinality(T) <= n}

BlockRows ==
    {[id |-> 1, tutor_id |-> 1, day_of_week |-> Weekday(d),
      start_time |-> iv[1], end_time |-> iv[2]] :
        d \in AvailDates, iv \in {<<0, DayLen - 1>>, <<1, 2>>, <<2, DayLen - 1>>}}

\* Full-day blackouts and partial ones, as add_exception stores them.
ExceptionRows ==
    {[id |-> 1, tutor_id |-> 1, date |-> d,
      start_time |-> iv[1], end_time |-> iv[2]] :
        d \in AvailDates, iv \in {<<None, None>>, <<0, 1>>, <<1, 3>>, <<2, 3>>}}

BookingRows ==
    {[id |-> Combine(1, t), tutor_id |-> 1, subject_id |-> 1,
      student_name |-> "Ann", student_phone |-> "5550100",
      start_time |-> Combine(1, t), end_time |-> Combine(1, t) + SlotLen,
      is_canceled |-> c, canceled_at |-> IF c THEN 1 ELSE None,
      cancel_reason |-> None] : t \in Times, c \in BOOLEAN}

InitAvail ==
    /\ tutor_ids = {1}
    /\ is_active = [t \in Tutors |-> TRUE]
    /\ tutor_subjects = {<<1, 1>>}
    /\ weekly_availability \in BoundedSubsets(BlockRows, 1)
    /\ tutor_exceptions \in BoundedSubsets(ExceptionRows, 1)
    /\ bookings \in {bs \in BoundedSubsets(BookingRows, MaxBookings) :
                        \A b1, b2 \in bs :
                            b1.start_time = b2.start_time => b1 = b2}
    /\ next_booking_id = 1
    /\ slot_minutes = SlotLen
    /\ utcnow = 1
    /\ pc = [r \in BookReqs |-> "idle"]
    /\ req = [r \in BookReqs |-> IdleReq]
    /\ committed = {}
    /\ booking_notifications = [i \in 1..MaxBookings |-> 0]
    /\ cancel_notifications = [i \in 1..MaxBookings |-> 0]
    /\ portal_flash = NoFlash
    /\ slot_check = NoCall
    /\ call = NoQuery

CheckSlot ==
    /\ \E start_dt \in Combine(1, 0)..Combine(1, DayLen - 1), len \in 1..SlotLen :
         slot_check' = [called |-> TRUE, tutor_id |-> 1, start_dt |-> start_dt,
                        end_dt |-> start_dt + len,
                        available |->
                            is_available_for_slot(1, start_dt, start_dt + len)]
    /\ UNCHANGED <<store, slot_minutes, utcnow, pc, req, committed,
                   booking_notifications, cancel_notifications, portal_flash,
                   call>>

SpecAvail == InitAvail /\ [][CheckSlot]_vars

\* ------------------------------------------------- availability endpoint
\* sorted(slots_map.keys())
RECURSIVE sorted(_)
sorted(S) ==
    IF S = {} THEN <<>>
    ELSE LET least == CHOOSE x \in S : \A y \in S : x <= y
         IN  <<least>> \o sorted(S \ {least})

FlashNoSessions == "No sessions available on that date. Please choose another."

\* availability: the JSON body and status for the query arguments;
\* subject_id is request.args.get('subject_id', type=int), None when absent.
availability(args, now) ==
    IF args.subject_id = None \/ args.subject_id = 0 \/ args.date = ""
    THEN [status |-> 400, error |-> "Missing subject or date."]
    ELSE IF args.date \notin DOMAIN DateStrings
    THEN [status |-> 400, error |-> "Invalid date format."]
    ELSE LET target_date == DateStrings[args.date]
             window == booking_window_status(target_date, now)
         IN  IF ~window.allowed
             THEN [status |-> 200, slots |-> <<>>, message |-> window.message]
             ELSE LET slots_map == collect_open_slots(args.subject_id, target_date)
                      keys == sorted(DOMAIN slots_map)
                      slots == [i \in DOMAIN keys |->
                                  [value |-> TimeOf(keys[i]),
                                   tutor_count |-> Cardinality(slots_map[keys[i]])]]
                  IN  [status |-> 200, slots |-> slots,
                       message |-> IF slots = <<>> THEN FlashNoSessions ELSE ""]

\* ------------------------------------------------------------- SpecQuery
\* The read-only paths on stores of two tutors: the availability endpoint,
\* collect_open_slots, and book's available_tutors_for_slot / pick_fair_tutor.
QueryBlockRows ==
    {[id |-> 1, tutor_id |-> 1, day_of_week |-> Weekday(1),
      start_time |-> 0, end_time |-> DayLen - 1],
     [id |-> 2, tutor_id |-> 1, day_of_week |-> Weekday(1),
      start_time |-> 1, end_time |-> DayLen - 1],
     [id |-> 3, tutor_id |-> 2, day_of_week |-> Weekday(1),
      start_time |-> 0, end_time |-> DayLen - 1],
     [id |-> 4, tutor_id |-> 2, day_of_week |-> Weekday(2),
      start_time |-> 0, end_time |-> 2]}

QueryExceptionRows ==
    {[id |-> 1, tutor_id |-> 1, date |-> 1, start_time |-> None,
      end_time |-> None],
     [id |-> 2, tutor_id |-> 2, date |-> 1, start_time |-> 0, end_time |-> 1]}

QueryBookingRows(len) ==
    {[id |-> 2 * tutor + t - 1, tutor_id |-> tutor, subject_id |-> 1,
      student_name |-> "Ann", student_phone |-> "5550100",
      start_time |-> Combine(1, t), end_time |-> Combine(1, t) + len,
      is_canceled |-> c, canceled_at |-> IF c THEN 1 ELSE None,
      cancel_reason |-> None] : tutor \in Tutors, t \in {0, 1}, c \in BOOLEAN}

InitQuery ==
    /\ tutor_ids = Tutors
    /\ \E second \in {"active", "inactive", "other subject"} :
         /\ is_active = [t \in Tutors |-> t = 1 \/ second # "inactive"]
         /\ tutor_subjects = {<<t, 1>> : t \in {u \in Tutors :
                                 u = 1 \/ second # "other subject"}}
    /\ weekly_availability \in BoundedSubsets(QueryBlockRows, 2)
    /\ tutor_exceptions \in BoundedSubsets(QueryExceptionRows, 1)
    /\ slot_minutes \in 1..SlotLen
    /\ bookings \in {bs \in BoundedSubsets(QueryBookingRows(slot_minutes),
                                           MaxBookings) :
                        \A b1, b2 \in bs :
                            (b1.tutor_id = b2.tutor_id
                             /\ b1.start_time = b2.start_time) => b1 = b2}
    /\ next_booking_id = 1
    /\ utcnow = 1
    /\ pc = [r \in BookReqs |-> "idle"]
    /\ req = [r \in BookReqs |-> IdleReq]
    /\ committed = {}
    /\ booking_notifications = [i \in 1..MaxBookings |-> 0]
    /\ cancel_notifications = [i \in 1..MaxBookings |-> 0]
    /\ portal_flash = NoFlash
    /\ slot_check = NoCall
    /\ call = NoQuery

\* The calls below read the store and write nothing.
Untouched ==
    UNCHANGED <<store, slot_minutes, utcnow, pc, req, committed,
                booking_notifications, cancel_notifications, portal_flash,
                slot_check>>

CollectOpenSlots ==
    /\ \E subject_id \in Subjects, target_date \in {1, 2} :
         call' = [op |-> "collect_open_slots", subject_id |-> subject_id,
                  target_date |-> target_date,
                  slots |-> collect_open_slots(subject_id, target_date)]
    /\ Untouched

\* book, lines 150-151, on its own.
SelectTutor ==
    /\ \E subject_id \in Subjects, start_dt \in Combine(1, 0)..Combine(1, DayLen - 1) :
         LET end_dt == start_dt + slot_minutes
             candidates == available_tutors_for_slot(subject_id, start_dt, end_dt)
         IN  \E tutor \in IF pick_fair_tutor(candidates) = {} THEN {None}
                          ELSE pick_fair_tutor(candidates) :
                 call' = [op |-> "pick_fair_tutor", subject_id |-> subject_id,
                          start_dt |-> start_dt, end_dt |-> end_dt,
                          candidates |-> candidates, tutor |-> tutor]
    /\ Untouched

AvailabilityArgs ==
    {[subject_id |-> 1, date |-> d] : d \in {"", "bad", "d0", "d1", "d2"}}
    \cup {[subject_id |-> None, date |-> "d1"], [subject_id |-> 9, date |-> "d1"]}

Availability ==
    /\ \E args \in AvailabilityArgs, now \in Nows :
         call' = [op |-> "availability", args |-> args, now |-> now,
                  response |-> availability(args, now)]
    /\ Untouched

NextQuery == CollectOpenSlots \/ SelectTutor \/ Availability

SpecQuery == InitQuery /\ [][NextQuery]_vars

\* ------------------------------------------------------------- SpecClock
\* generate_slots and _booking_window_status on their own: they read no row.
ClockDates == 0..(DayLen - 1)
ClockNows == [date : ClockDates, time : Times]

\* The blocks add_availability stores: end_time after start_time.
SlotBlocks ==
    {[id |-> 1, tutor_id |-> 1, day_of_week |-> 0,
      start_time |-> iv[1], end_time |-> iv[2]] :
        iv \in {p \in Times \X Times : p[1] < p[2]}}

GenerateSlots ==
    /\ \E block \in SlotBlocks, date \in ClockDates, slot_len \in 1..MaxSlotLen :
         call' = [op |-> "generate_slots", block |-> block, date |-> date,
                  slot_minutes |-> slot_len,
                  slots |-> generate_slots(block, date, slot_len)]
    /\ Untouched

WindowStatus ==
    /\ \E target_date \in ClockDates, now \in ClockNows :
         call' = [op |-> "booking_window_status", target_date |-> target_date,
                  now |-> now,
                  status |-> booking_window_status(target_date, now)]
    /\ Untouched

NextClock == GenerateSlots \/ WindowStatus

SpecClock == Init /\ [][NextClock]_vars

\* ---------------------------------------------------------------- claims
Ended(r) == pc[r] \in {"committed", "done"}

Overlap(b1, b2) == b1.start_time < b2.end_time /\ b2.start_time < b1.end_time

\* C1: in every reachable state no tutor has two different non-canceled
\* bookings whose [start, end) ranges overlap, whether the two start times are
\* equal or less than one slot length apart.
C1_NoDoubleBooking ==
    \A b1, b2 \in bookings :
        (b1 # b2 /\ b1.tutor_id = b2.tutor_id
         /\ ~b1.is_canceled /\ ~b2.is_canceled) => ~Overlap(b1, b2)

\* C2: when two book requests have both read availability before either
\* commits and both hold the same tutor and start time, and neither commit
\* meets a storage error of another kind, exactly one of them ends with a
\* persisted Booking and the other with a commit failure and no row.
C2_ExactlyOneWins ==
    \A r, q \in BookReqs :
        (r # q /\ Ended(r) /\ Ended(q) /\ req[r].raced /\ req[q].raced
         /\ req[r].cause # "storage" /\ req[q].cause # "storage")
        => \/ req[r].cause = "ok" /\ req[q].cause = "unique"
              /\ req[q].booking_id = None
           \/ req[q].cause = "ok" /\ req[r].cause = "unique"
              /\ req[r].booking_id = None

\* C3: the rows of the table are exactly the bookings whose commit returned:
\* a request whose commit raised has no row, a request holds a booking id
\* exactly when its commit succeeded, and the Booking a request has added to
\* its session and not committed is not among the rows the others read.
C3_RowIffCommitted ==
    /\ {b.id : b \in bookings} = committed
    /\ Cardinality(bookings) = Cardinality(committed)
    /\ \A r \in BookReqs :
         /\ req[r].booking_id # None <=> (Ended(r) /\ req[r].cause = "ok")
         /\ req[r].booking_id # None => req[r].booking_id \in committed
         /\ req[r].cause \in {"unique", "storage"} => req[r].booking_id = None
         /\ pc[r] = "added" => NewBooking(r) \notin bookings

\* C3 witness: one request's commit has raised after another's succeeded.
C3_Witness ==
    \E r, q \in BookReqs :
        /\ pc[r] = "done" /\ req[r].cause \in {"unique", "storage"}
        /\ pc[q] = "done" /\ req[q].cause = "ok"
        /\ Cardinality(bookings) = 1

UniqueKey ==
    \A b1, b2 \in bookings :
        (b1.tutor_id = b2.tutor_id /\ b1.start_time = b2.start_time) => b1 = b2

\* C4: no two Booking rows, canceled or not, share (tutor, start_time), and a
\* request that reaches its commit holding a tutor and start time for which a
\* canceled row exists fails there and adds no row.
C4_CanceledKeyStaysTaken ==
    /\ []UniqueKey
    /\ [][\A r \in BookReqs :
            (/\ pc[r] = "added" /\ pc'[r] # "added"
             /\ \E b \in bookings : /\ b.is_canceled
                                    /\ b.tutor_id = req[r].tutor_id
                                    /\ b.start_time = req[r].start_time)
            => (/\ pc'[r] = "done"
                /\ req'[r].cause \in {"unique", "storage"}
                /\ bookings' = bookings)]_vars

\* C4 witness: a request failed on the unique key although nobody raced it:
\* the slot read as available and the key was held by a canceled row.
C4_Witness ==
    \E r \in BookReqs :
        /\ pc[r] = "done" /\ req[r].cause = "unique" /\ ~req[r].raced
        /\ \E b \in bookings :
             b.is_canceled
             /\ is_available_for_slot(b.tutor_id, b.start_time, b.end_time)

\* C5: the flash of a request that failed on the unique key differs from the
\* flash of a request for which no tutor was free.
C5_RaceVsCapacity ==
    \A r, q \in BookReqs :
        (pc[r] = "done" /\ req[r].cause = "unique"
         /\ pc[q] = "done" /\ req[q].cause = "capacity")
        => req[r].flash # req[q].flash

\* C5 witness: one request ended on the unique key, the other on capacity.
C5_Witness ==
    \E r, q \in BookReqs :
        /\ pc[r] = "done" /\ req[r].cause = "unique"
        /\ pc[q] = "done" /\ req[q].cause = "capacity"

\* C6: the response of a request that failed on the unique key differs from
\* the response of a request whose commit met any other storage error.
C6_RaceVsStorage ==
    \A r, q \in BookReqs :
        (pc[r] = "done" /\ req[r].cause = "unique"
         /\ pc[q] = "done" /\ req[q].cause = "storage")
        => <<req[r].flash, req[r].response>> # <<req[q].flash, req[q].response>>

\* A step in which request r came back rejected before any insert.
RejectedStep(r) ==
    /\ pc[r] \in {"idle", "done"}
    /\ pc'[r] = "done"
    /\ <<pc[r], req[r]>> # <<pc'[r], req'[r]>>
    /\ req'[r].cause \in {"validation", "window", "capacity"}

\* C7: a book request that ends on a missing field, a bad or unknown subject,
\* a malformed date or time, a date before the earliest bookable one or an
\* empty candidate set changes no stored record and sends no notification.
C7_RejectionChangesNothing ==
    [][\A r \in BookReqs :
          RejectedStep(r) => UNCHANGED <<store, committed, booking_notifications,
                                         cancel_notifications>>]_vars

\* C7 witness: with bookings stored, requests were rejected for want of a
\* tutor and by the validation.
C7_Witness ==
    \E r, q \in BookReqs :
        /\ pc[r] = "done" /\ req[r].cause = "capacity"
        /\ pc[q] = "done" /\ req[q].cause \in {"validation", "window"}
        /\ bookings # {}

\* C8: a cancel request for a booking that is already canceled changes
\* nothing: a canceled row keeps every field, the request that is answered
\* "already canceled" leaves the table, the clock and the notifier alone, and
\* no booking gets a second cancellation notification.
C8_CancelIdempotent ==
    /\ [](\A i \in DOMAIN cancel_notifications : cancel_notifications[i] <= 1)
    /\ [][/\ \A b \in bookings : b.is_canceled => b \in bookings'
          /\ (portal_flash' = FlashAlreadyCanceled /\ portal_flash' # portal_flash)
             => UNCHANGED <<bookings, utcnow, cancel_notifications>>]_vars

\* C8 witness: a booking was canceled and then a second cancel was answered.
C8_Witness ==
    /\ portal_flash = FlashAlreadyCanceled
    /\ \E b \in bookings : /\ b.is_canceled
                           /\ cancel_notifications[b.id] = 1
                           /\ utcnow > b.canceled_at

\* C9: a booking that is canceled stays canceled and a Booking row that
\* exists stays in the table, in every step.
C9_OneWayAndKept ==
    [][\A b \in bookings :
          \E b2 \in bookings' :
              b2.id = b.id /\ (b.is_canceled => b2.is_canceled)]_vars

\* C9 witness: delete_tutor has refused a tutor whose only booking is canceled.
C9_Witness ==
    /\ portal_flash = FlashHasBookings
    /\ bookings # {}
    /\ \A b \in bookings : b.is_canceled

\* The three gates of C10, each stated on its own.
GateExceptions(t, start_dt, end_dt) ==
    \A exc \in tutor_exceptions :
        (exc.tutor_id = t /\ exc.date = DateOf(start_dt))
        => /\ ~(exc.start_time = None /\ exc.end_time = None)
           /\ ~(start_dt < exc.date * DayLen + exc.end_time
                /\ end_dt > exc.date * DayLen + exc.start_time)
GateBlock(t, start_dt, end_dt) ==
    \E block \in weekly_availability :
        /\ block.tutor_id = t
        /\ block.day_of_week = Weekday(DateOf(start_dt))
        /\ block.start_time <= TimeOf(start_dt)
        /\ block.end_time >= TimeOf(end_dt)
GateBookings(t, start_dt, end_dt) ==
    \A b \in bookings :
        (b.tutor_id = t /\ ~b.is_canceled)
        => (b.end_time <= start_dt \/ b.start_time >= end_dt)

\* C10: is_available_for_slot returns true exactly when no exception on the
\* start's date overlaps the interval, some block of the start's weekday
\* contains its times of day, and no non-canceled booking overlaps it
\* (half-open), in whatever order the three are taken.
C10_ThreeGates ==
    slot_check.called =>
        LET t == slot_check.tutor_id
            s == slot_check.start_dt
            e == slot_check.end_dt
        IN  /\ slot_check.available
                = (GateExceptions(t, s, e) /\ GateBlock(t, s, e)
                   /\ GateBookings(t, s, e))
            /\ slot_check.available
                = (GateBookings(t, s, e) /\ GateBlock(t, s, e)
                   /\ GateExceptions(t, s, e))

\* C10 witness: an interval found available that starts exactly where one
\* booking ends and lies over a canceled one.
C10_Witness ==
    /\ slot_check.called
    /\ slot_check.available
    /\ \E b \in bookings : ~b.is_canceled /\ b.end_time = slot_check.start_dt
    /\ \E b \in bookings : b.is_canceled /\ b.start_time = slot_check.start_dt


\* C11: when the tutor has a full-day exception (no start and no end time) on
\* the date of the interval's start, is_available_for_slot returns false,
\* whatever the interval's time of day and whatever blocks and bookings exist.
C11_FullDayBlocks ==
    (/\ slot_check.called
     /\ \E exc \in tutor_exceptions :
            /\ exc.tutor_id = slot_check.tutor_id
            /\ exc.start_time = None /\ exc.end_time = None
            /\ exc.date = slot_check.start_dt \div DayLen)
    => ~slot_check.available

\* C11 witness: a full-day exception alone turned down an interval that a
\* block contains and no booking touches.
C11_Witness ==
    /\ slot_check.called /\ ~slot_check.available
    /\ \E exc \in tutor_exceptions :
           exc.start_time = None /\ exc.date = slot_check.start_dt \div DayLen
    /\ GateBlock(slot_check.tutor_id, slot_check.start_dt, slot_check.end_dt)
    /\ bookings = {}


\* C12: for every block and positive slot length L, generate_slots returns,
\* earliest first, exactly the slots (start + k*L, start + (k+1)*L) for
\* k = 0 .. floor((end - start) / L) - 1: each of length L, none past the
\* block's end, each beginning where the one before ends, and none at all when
\* the block is shorter than L.
C12_SlotsExact ==
    call.op = "generate_slots" =>
        LET L == call.slot_minutes
            first == call.date * DayLen + call.block.start_time
            last == call.date * DayLen + call.block.end_time
            n == (last - first) \div L
            slots == call.slots
        IN  /\ Len(slots) = n
            /\ \A k \in 1..n : slots[k] = <<first + (k - 1) * L, first + k * L>>
            /\ \A k \in DOMAIN slots :
                   /\ slots[k][2] - slots[k][1] = L
                   /\ slots[k][2] <= last
                   /\ k > 1 => slots[k][1] = slots[k - 1][2]
            /\ (last - first < L) => slots = <<>>

\* C12 witness: a block that is not a multiple of L gave its whole slots and
\* left the rest unused.
C12_Witness ==
    /\ call.op = "generate_slots"
    /\ Len(call.slots) >= 1
    /\ call.slots[Len(call.slots)][2]
           < call.date * DayLen + call.block.end_time

\* C15: for an instant now on day D the earliest bookable date is D+1 when
\* now's time of day is before the cutoff (22:00) and D+2 when it is at or
\* after it.
C15_EarliestDate ==
    call.op = "booking_window_status" =>
        call.status.min_date =
            IF call.now.time < CutoffTime THEN call.now.date + 1
            ELSE call.now.date + 2

\* C15 witness: asked exactly at the cutoff, the earliest date is D+2.
C15_Witness ==
    /\ call.op = "booking_window_status"
    /\ call.now.time = CutoffTime
    /\ call.status.min_date = call.now.date + 2


\* The non-canceled bookings pick_fair_tutor counts for a tutor.
Load(t) == Cardinality({b \in bookings : b.tutor_id = t /\ ~b.is_canceled})

\* Tutor t, active and teaching the subject, has a block on the date's weekday
\* of which (s, s + L) is one of the generated slots.
Generates(t, subject_id, target_date, s) ==
    /\ t \in tutor_ids /\ is_active[t] /\ <<t, subject_id>> \in tutor_subjects
    /\ \E block \in weekly_availability :
         /\ block.tutor_id = t /\ block.day_of_week = target_date % 7
         /\ \E k \in 0..DayLen :
              /\ s = target_date * DayLen + block.start_time + k * slot_minutes
              /\ s + slot_minutes <= target_date * DayLen + block.end_time

\* C13: the keys of collect_open_slots are exactly the slot starts s for which
\* some active tutor teaching the subject has a block on that weekday that
\* generates (s, s+L) and is available for it; no key has an empty list; a
\* tutor is listed under s exactly when the slot is one of the tutor's and no
\* exception and no non-canceled booking of the tutor overlaps it.
C13_OpenSlotKeys ==
    call.op = "collect_open_slots" =>
        LET m == call.slots
            L == slot_minutes
            day == call.target_date * DayLen
        IN  /\ DOMAIN m =
                 {s \in day..(day + DayLen) :
                    \E t \in Tutors :
                        /\ Generates(t, call.subject_id, call.target_date, s)
                        /\ is_available_for_slot(t, s, s + L)}
            /\ \A s \in DOMAIN m : m[s] # {}
            /\ \A s \in day..(day + DayLen), t \in Tutors :
                 (\E e \in (IF s \in DOMAIN m THEN m[s] ELSE {}) : e[1] = t)
                 <=> (/\ Generates(t, call.subject_id, call.target_date, s)
                      /\ GateExceptions(t, s, s + L)
                      /\ GateBookings(t, s, s + L))

\* C13 witness: a tutor's booked slot is not a key while an earlier and a
\* later slot of the same tutor are.
C13_Witness ==
    /\ call.op = "collect_open_slots"
    /\ \E b \in bookings :
         /\ ~b.is_canceled
         /\ b.start_time \notin DOMAIN call.slots
         /\ \E s1, s2 \in DOMAIN call.slots :
              /\ s1 < b.start_time /\ b.start_time < s2
              /\ \E e \in call.slots[s1] : e[1] = b.tutor_id
              /\ \E e \in call.slots[s2] : e[1] = b.tutor_id

\* C14: pick_fair_tutor returns none exactly when there is no candidate;
\* otherwise a candidate whose count of non-canceled bookings is the least
\* among the candidates, and the candidates it may return are all those with
\* the least count (one of them when only one has it).
C14_LeastLoaded ==
    /\ call.op = "pick_fair_tutor" =>
         /\ call.tutor = None <=> call.candidates = {}
         /\ call.tutor # None =>
              /\ call.tutor \in call.candidates
              /\ \A u \in call.candidates : Load(call.tutor) <= Load(u)
    /\ \A C \in SUBSET Tutors :
         pick_fair_tutor(C) = {t \in C : \A u \in C : Load(t) <= Load(u)}

\* C14 witness: of two candidates the one returned has fewer non-canceled
\* bookings, although it has more bookings in all.
C14_Witness ==
    /\ call.op = "pick_fair_tutor"
    /\ call.tutor # None
    /\ \E u \in call.candidates :
         /\ Load(call.tutor) < Load(u)
         /\ Cardinality({b \in bookings : b.tutor_id = call.tutor})
              >= Cardinality({b \in bookings : b.tutor_id = u})


\* The forms of FormInputs that pass book's checks of fields, subject, date
\* and time.
WellFormed(form) ==
    /\ form.student_phone # "n/a"
    /\ form.subject_id = "1"
    /\ form.date \in DOMAIN DateStrings
    /\ form.start_time \in DOMAIN TimeStrings

\* C16: _booking_window_status denies a target date exactly when it is before
\* the earliest bookable date of the same now; a denied date that is today or
\* earlier gets the same-day reason, a denied later date (tomorrow, after the
\* cutoff) the after-cutoff reason; the availability endpoint answers a denied
\* date with no slots and that reason whatever the store holds, and book
\* answers it with that reason and goes no further.
C16_WindowGate ==
    /\ \A target_date \in ClockDates, now \in ClockNows :
         LET status == booking_window_status(target_date, now)
             denied == target_date < minimum_bookable_date(now)
         IN  /\ status.allowed = ~denied
             /\ (denied /\ target_date <= now.date)
                => status.message = "Same-day bookings are not available."
             /\ (denied /\ target_date > now.date)
                => /\ status.message
                        = "After 10:00 PM Pacific, next-day sessions close."
                   /\ now.time >= CutoffTime
                   /\ target_date = now.date + 1
             /\ ~denied => status.message = ""
    /\ (call.op = "availability" /\ call.response.status = 200) =>
         LET target_date == DateStrings[call.args.date]
             denied == target_date < minimum_bookable_date(call.now)
         IN  IF denied
             THEN call.response =
                    [status |-> 200, slots |-> <<>>,
                     message |-> IF target_date <= call.now.date
                                 THEN "Same-day bookings are not available."
                                 ELSE "After 10:00 PM Pacific, next-day sessions close."]
             ELSE {call.response.slots[i].value : i \in DOMAIN call.response.slots}
                    = {s % DayLen :
                         s \in DOMAIN collect_open_slots(call.args.subject_id,
                                                         target_date)}
    /\ \A form \in {f \in FormInputs : WellFormed(f)}, now \in Nows :
         LET target_date == DateStrings[form.date]
             denied == target_date < minimum_bookable_date(now)
             v == book_validate(form, now)
         IN  /\ v.cause = "window" <=> denied
             /\ denied =>
                  /\ v.tutor_id = None /\ v.response = "booking.html"
                  /\ v.flash.category = "warning"
                  /\ v.flash.message =
                       IF target_date <= now.date
                       THEN "Same-day bookings are not available."
                       ELSE "After 10:00 PM Pacific, next-day sessions close."

\* C16 witness: after the cutoff the endpoint turned down tomorrow with no
\* slots although the store has open slots on that date.
C16_Witness ==
    /\ call.op = "availability"
    /\ call.args.date = "d1" /\ call.args.subject_id = 1
    /\ call.now.time >= CutoffTime
    /\ call.response.status = 200 /\ call.response.slots = <<>>
    /\ call.response.message = "After 10:00 PM Pacific, next-day sessions close."
    /\ DOMAIN collect_open_slots(1, 1) # {}


\* A step in which request r came back without a committed Booking.
FailedStep(r) ==
    /\ pc'[r] = "done"
    /\ <<pc[r], req[r]>> # <<pc'[r], req'[r]>>
    /\ req'[r].cause # "ok"

\* C17: send_booking_notifications is called once for each booking whose
\* commit succeeded, after that commit and by the time the request returns,
\* and a request that ends on a validation error, a window denial, a capacity
\* conflict or a commit failure calls it for no booking.
C17_NotifiedOnce ==
    /\ [](\A i \in DOMAIN booking_notifications :
            /\ booking_notifications[i] <= 1
            /\ booking_notifications[i] = 1 => i \in committed
            /\ i \in committed =>
                 \/ booking_notifications[i] = 1
                 \/ \E r \in BookReqs :
                        pc[r] = "committed" /\ req[r].booking_id = i)
    /\ [](\A r \in BookReqs :
            /\ pc[r] = "committed" => booking_notifications[req[r].booking_id] = 0
            /\ (pc[r] = "done" /\ req[r].cause = "ok")
               => booking_notifications[req[r].booking_id] = 1)
    /\ [][\A r \in BookReqs :
            FailedStep(r) => booking_notifications' = booking_notifications]_vars

\* C17 witness: one request is back with its confirmation and one call of the
\* notifier, the other is back from a failed commit, and that one call is all.
C17_Witness ==
    \E r, q \in BookReqs :
        /\ pc[r] = "done" /\ req[r].cause = "ok"
        /\ booking_notifications[req[r].booking_id] = 1
        /\ pc[q] = "done" /\ req[q].cause \in {"unique", "storage"}
        /\ \A i \in DOMAIN booking_notifications :
               i # req[r].booking_id => booking_notifications[i] = 0

\* C18: a request that has added its Booking keeps the tutor and start time
\* it selected until its one commit, and a commit that fails sends it back to
\* the caller with no row written: it selects no other tutor and attempts no
\* second insert.
C18_SingleAttempt ==
    [][\A r \in BookReqs :
          pc[r] = "added" =>
              \/ /\ pc'[r] = "added"
                 /\ req'[r].tutor_id = req[r].tutor_id
                 /\ req'[r].start_time = req[r].start_time
              \/ /\ pc'[r] = "committed"
                 /\ \E b \in bookings' :
                        /\ bookings' = bookings \cup {b} /\ b \notin bookings
                        /\ b.tutor_id = req[r].tutor_id
                        /\ b.start_time = req[r].start_time
              \/ /\ pc'[r] = "done"
                 /\ req'[r].cause \in {"unique", "storage"}
                 /\ req'[r].tutor_id = None
                 /\ UNCHANGED <<bookings, next_booking_id, committed>>]_vars

\* C18 witness: a request is back from a failure on the unique key, unraced,
\* while another tutor was free for the very slot whose key a canceled row
\* holds.
C18_Witness ==
    \E r \in BookReqs :
        /\ pc[r] = "done" /\ req[r].cause = "unique" /\ ~req[r].raced
        /\ Cardinality(bookings) = 1
        /\ \E b \in bookings :
             /\ b.is_canceled
             /\ \E t \in tutor_ids \ {b.tutor_id} :
                    t \in available_tutors_for_slot(b.subject_id, b.start_time,
                                                    b.end_time)


\* Tutor t is active and teaches the subject in the present store.
Offered(t, subject_id) ==
    t \in tutor_ids /\ is_active[t] /\ <<t, subject_id>> \in tutor_subjects

\* C19: in every store, the lists of available_tutors_for_slot and of
\* collect_open_slots hold only tutors who are active and teach the subject;
\* the tutor a book request selects is active and teaches the requested
\* subject in the store the request read, and the Booking it commits is for
\* that tutor and subject.
C19_OnlyOfferedTutors ==
    /\ [](\A subject_id \in Subjects :
            /\ \A start_dt \in Combine(0, 0)..Combine(2, 0) :
                 \A t \in available_tutors_for_slot(subject_id, start_dt,
                                                    start_dt + slot_minutes) :
                     Offered(t, subject_id)
            /\ \A target_date \in 0..2 :
                 LET m == collect_open_slots(subject_id, target_date) IN
                 \A s \in DOMAIN m : \A e \in m[s] : Offered(e[1], subject_id))
    /\ [][\A r \in BookReqs :
            /\ (pc[r] # "added" /\ pc'[r] = "added")
               => Offered(req'[r].tutor_id, req'[r].subject_id)
            /\ (pc[r] = "added" /\ pc'[r] = "added")
               => /\ req'[r].tutor_id = req[r].tutor_id
                  /\ req'[r].subject_id = req[r].subject_id
            /\ (pc[r] = "added" /\ pc'[r] = "committed")
               => \A b \in bookings' \ bookings :
                      /\ b.tutor_id = req[r].tutor_id
                      /\ b.subject_id = req[r].subject_id]_vars
    /\ [][bookings' # bookings =>
            \E r \in BookReqs : pc[r] = "added" /\ pc'[r] = "committed"]_vars

\* C19 witness: a request holds one tutor while the other one, who teaches the
\* subject, is free for the same slot and has no more bookings, is switched off.
C19_Witness ==
    \E r \in BookReqs, t \in Tutors :
        /\ pc[r] = "added"
        /\ ~is_active[t] /\ <<t, req[r].subject_id>> \in tutor_subjects
        /\ is_available_for_slot(t, req[r].start_time, req[r].end_time)
        /\ t # req[r].tutor_id
        /\ Load(t) <= Load(req[r].tutor_id)


\* C20: in every interleaving of book and cancel requests each request can
\* always take its next step, whatever the other request is doing, so that
\* (every commit and notifier call returning) a request that has added its
\* Booking or committed it reaches its response, and the response is one of
\* booked, validation or window rejection, capacity conflict, commit failure.
C20_NoWaiting ==
    /\ [](\A r \in BookReqs :
            /\ pc[r] \in {"idle", "done"} => ENABLED BookSelect(r)
            /\ pc[r] = "added" => ENABLED BookCommit(r)
            /\ pc[r] = "committed" => ENABLED BookNotify(r)
            /\ pc[r] = "done" =>
                 req[r].cause \in {"ok", "validation", "window", "capacity",
                                   "unique", "storage"})
    /\ \A r \in BookReqs : (pc[r] = "added") ~> (pc[r] = "done")
    /\ \A r \in BookReqs : (pc[r] = "committed") ~> (pc[r] = "done")

\* C20 witness: both requests are back, one booked and then canceled, the
\* other from a failed commit, after running side by side.
C20_Witness ==
    \E r, q \in BookReqs :
        /\ pc[r] = "done" /\ req[r].cause = "ok" /\ req[r].raced
        /\ pc[q] = "done" /\ req[q].cause = "unique" /\ req[q].raced
        /\ \E b \in bookings : b.id = req[r].booking_id /\ b.is_canceled


\* ------------------------------------------------------------ SpecConfig
\* One booking request at a time under each value BOOKING_SLOT_MINUTES can
\* be given: int(os.environ.get(...)) takes zero and negative numbers too.
SlotMinuteValues == (0 - 1)..SlotLen

InitConfig ==
    /\ tutor_ids = Tutors
    /\ is_active = [t \in Tutors |-> TRUE]
    /\ tutor_subjects = {<<t, 1>> : t \in Tutors}
    /\ weekly_availability =
           {[id |-> t, tutor_id |-> t, day_of_week |-> Weekday(Today + 1),
             start_time |-> 0, end_time |-> DayLen - 1] : t \in Tutors}
    /\ tutor_exceptions = {}
    /\ bookings = {}
    /\ next_booking_id = 1
    /\ slot_minutes \in SlotMinuteValues
    /\ utcnow = 1
    /\ pc = [r \in BookReqs |-> "idle"]
    /\ req = [r \in BookReqs |-> IdleReq]
    /\ committed = {}
    /\ booking_notifications = [i \in 1..MaxBookings |-> 0]
    /\ cancel_notifications = [i \in 1..MaxBookings |-> 0]
    /\ portal_flash = NoFlash
    /\ slot_check = NoCall
    /\ call = NoQuery

NextConfig ==
    \/ BookSelect("r1")
    \/ BookCommit("r1")
    \/ BookNotify("r1")

SpecConfig == InitConfig /\ [][NextConfig]_vars

\* C21: every Booking row that book has created has end_time after
\* start_time, and end_time = start_time + the configured slot length,
\* whatever value the slot length has been configured to.
C21_EndAfterStart ==
    \A b \in bookings :
        /\ b.end_time > b.start_time
        /\ b.end_time = b.start_time + slot_minutes


\* ------------------------------------------------------------ SpecBlocks
\* The tutor portal's handlers for weekly blocks (tutor_routes.py).
MaxBlocks == 3

FlashBadBlock == Flash("Invalid availability input.", "danger")
FlashEndNotAfter == Flash("End time must be after start time.", "danger")
FlashBlockAdded == Flash("Availability added.", "success")
FlashNotOwnBlock == Flash("You cannot modify another tutor's availability.", "danger")
FlashBlockRemoved == Flash("Availability removed.", "info")
ServerError == Flash("500", "abort")

\* int(day) on the strings a form holds; a string outside the domain (or a
\* missing field) raises ValueError or TypeError.
DayStrings == [k \in {"0", "6", "7", "-1"} |->
                  CASE k = "0" -> 0 [] k = "6" -> 6 [] k = "7" -> 7
                    [] k = "-1" -> 0 - 1]

\* The primary key the store gives a new row: one past the largest in use.
NewRowId(rows) ==
    IF rows = {} THEN 1
    ELSE (CHOOSE i \in {x.id : x \in rows} : \A x \in rows : x.id <= i) + 1

\* add_availability: the flash the handler ends with.
add_availability_flash(session_tutor, form) ==
    IF session_tutor \notin tutor_ids THEN ServerError
    ELSE IF form.day_of_week \notin DOMAIN DayStrings
            \/ form.start_time \notin DOMAIN TimeStrings
            \/ form.end_time \notin DOMAIN TimeStrings
    THEN FlashBadBlock
    ELSE IF TimeStrings[form.end_time] <= TimeStrings[form.start_time]
    THEN FlashEndNotAfter
    ELSE FlashBlockAdded

\* add_availability: what the handler does to the table.
add_availability(session_tutor, form) ==
    IF add_availability_flash(session_tutor, form) # FlashBlockAdded
    THEN UNCHANGED weekly_availability
    ELSE weekly_availability' = weekly_availability \cup
             {[id |-> NewRowId(weekly_availability),
               tutor_id |-> session_tutor,
               day_of_week |-> DayStrings[form.day_of_week],
               start_time |-> TimeStrings[form.start_time],
               end_time |-> TimeStrings[form.end_time]]}

BlockForms ==
    [day_of_week : {"0", "7", "-1", "x"},
     start_time : {"t0", "t1"}, end_time : {"t0", "t1"}]
    \cup {[day_of_week |-> "0", start_time |-> "noon", end_time |-> "t2"]}

\* The bound on the table: a request that would store a row runs only while
\* the table and its ids stay within MaxBlocks.
AddAvailability ==
    /\ \E session_tutor \in Tutors, form \in BlockForms :
         /\ add_availability_flash(session_tutor, form) = FlashBlockAdded
              => /\ Cardinality(weekly_availability) < MaxBlocks
                 /\ NewRowId(weekly_availability) <= MaxBlocks + 1
         /\ add_availability(session_tutor, form)
         /\ portal_flash' = add_availability_flash(session_tutor, form)
    /\ UNCHANGED probes
    /\ UNCHANGED <<tutor_ids, is_active, tutor_subjects, tutor_exceptions,
                   bookings, next_booking_id, slot_minutes, utcnow, pc, req,
                   committed, booking_notifications, cancel_notifications>>

delete_availability(session_tutor, availability_id) ==
    LET found == {a \in weekly_availability : a.id = availability_id} IN
    IF found = {}
    THEN /\ portal_flash' = NotFound
         /\ UNCHANGED weekly_availability
    ELSE IF session_tutor \notin tutor_ids
    THEN /\ portal_flash' = ServerError
         /\ UNCHANGED weekly_availability
    ELSE IF \E a \in found : a.tutor_id # session_tutor
    THEN /\ portal_flash' = FlashNotOwnBlock
         /\ UNCHANGED weekly_availability
    ELSE /\ portal_flash' = FlashBlockRemoved
         /\ weekly_availability' = weekly_availability \ found

DeleteAvailability ==
    /\ \E session_tutor \in Tutors, availability_id \in 1..(MaxBlocks + 1) :
         delete_availability(session_tutor, availability_id)
    /\ UNCHANGED probes
    /\ UNCHANGED <<tutor_ids, is_active, tutor_subjects, tutor_exceptions,
                   bookings, next_booking_id, slot_minutes, utcnow, pc, req,
                   committed, booking_notifications, cancel_notifications>>

NextBlocks == AddAvailability \/ DeleteAvailability

SpecBlocks == Init /\ [][NextBlocks]_vars

\* C22: every WeeklyAvailability row stored after any sequence of
\* add_availability and delete_availability requests has day_of_week in 0..6
\* and end_time after start_time.
C22_BlocksWellFormed ==
    \A a \in weekly_availability :
        /\ a.day_of_week \in 0..6
        /\ a.end_time > a.start_time


\* --------------------------------------------------------- SpecBlackouts
\* The tutor portal's handlers for exceptions (tutor_routes.py).
MaxExceptions == 2

FlashBadExcDate == Flash("Invalid date for unavailability.", "danger")
FlashBothTimes ==
    Flash("Please provide both start and end time for a partial blackout.", "danger")
FlashBadExcTime == Flash("Invalid time for blackout period.", "danger")
FlashExcEndNotAfter ==
    Flash("Blackout end time must be after the start time.", "danger")
FlashExcOverlaps == Flash("That blackout overlaps with an existing one.", "warning")
FlashExcAlready == Flash("You already marked that time as unavailable.", "warning")
FlashExcAdded == Flash("Unavailability added.", "success")
FlashNotOwnExc == Flash("You cannot modify another tutor's exception.", "danger")
FlashExcRemoved == Flash("Exception removed.", "info")

\* The times add_exception parses from the form: None for an empty field.
exception_time(str) == IF str = "" THEN None ELSE TimeStrings[str]

\* Lines 237-242: the new blackout against the tutor's stored ones;
\* dt.time.min is tick 0 and dt.time.max lies past every tick of the day.
exception_overlaps_existing(session_tutor, date, start_time, end_time) ==
    LET provisional_start ==
            Combine(date, IF start_time = None THEN 0 ELSE start_time)
        provisional_end ==
            IF end_time = None THEN Combine(date, DayLen - 1) + 1
            ELSE Combine(date, end_time)
    IN  \E existing \in tutor_exceptions :
            /\ existing.tutor_id = session_tutor
            /\ overlaps(existing, provisional_start, provisional_end)

\* add_exception accepting a partial blackout that ends at or before its start.
add_exception_flash_any_order(session_tutor, form, commit_fails) ==
    IF form.date \notin DOMAIN DateStrings THEN FlashBadExcDate
    ELSE IF (form.start_time # "" \/ form.end_time # "")
            /\ (form.start_time = "" \/ form.end_time = "")
    THEN FlashBothTimes
    ELSE IF form.start_time # ""
            /\ (form.start_time \notin DOMAIN TimeStrings
                \/ form.end_time \notin DOMAIN TimeStrings)
    THEN FlashBadExcTime
    ELSE IF session_tutor \notin tutor_ids THEN ServerError
    ELSE IF exception_overlaps_existing(session_tutor, DateStrings[form.date],
                exception_time(form.start_time), exception_time(form.end_time))
    THEN FlashExcOverlaps
    ELSE IF commit_fails THEN FlashExcAlready
    ELSE FlashExcAdded

\* add_exception: the flash the handler ends with.
add_exception_flash(session_tutor, form, commit_fails) ==
    IF form.date \notin DOMAIN DateStrings THEN FlashBadExcDate
    ELSE IF (form.start_time # "" \/ form.end_time # "")
            /\ (form.start_time = "" \/ form.end_time = "")
    THEN FlashBothTimes
    ELSE IF form.start_time # ""
            /\ (form.start_time \notin DOMAIN TimeStrings
                \/ form.end_time \notin DOMAIN TimeStrings)
    THEN FlashBadExcTime
    ELSE IF form.start_time # ""
            /\ TimeStrings[form.end_time] <= TimeStrings[form.start_time]
    THEN FlashExcEndNotAfter
    ELSE IF session_tutor \notin tutor_ids THEN ServerError
    ELSE IF exception_overlaps_existing(session_tutor, DateStrings[form.date],
                exception_time(form.start_time), exception_time(form.end_time))
    THEN FlashExcOverlaps
    ELSE IF commit_fails THEN FlashExcAlready
    ELSE FlashExcAdded

\* add_exception: what the handler does to the table.
add_exception(session_tutor, form, commit_fails) ==
    IF add_exception_flash(session_tutor, form, commit_fails) # FlashExcAdded
    THEN UNCHANGED tutor_exceptions
    ELSE tutor_exceptions' = tutor_exceptions \cup
             {[id |-> NewRowId(tutor_exceptions),
               tutor_id |-> session_tutor,
               date |-> DateStrings[form.date],
               start_time |-> exception_time(form.start_time),
               end_time |-> exception_time(form.end_time)]}

ExceptionForms ==
    [date : {"d1", "bad"}, start_time : {"", "t0", "t1", "noon"},
     end_time : {"", "t1", "t2"}]

\* The bound on the table: a request that would store a row runs only while
\* the table and its ids stay within MaxExceptions.
AddException ==
    /\ \E session_tutor \in Tutors, form \in ExceptionForms,
          commit_fails \in BOOLEAN :
         /\ add_exception_flash(session_tutor, form, commit_fails) = FlashExcAdded
              => /\ Cardinality(tutor_exceptions) < MaxExceptions
                 /\ NewRowId(tutor_exceptions) <= MaxExceptions + 1
         /\ add_exception(session_tutor, form, commit_fails)
         /\ portal_flash' = add_exception_flash(session_tutor, form, commit_fails)
    /\ UNCHANGED probes
    /\ UNCHANGED <<tutor_ids, is_active, tutor_subjects, weekly_availability,
                   bookings, next_booking_id, slot_minutes, utcnow, pc, req,
                   committed, booking_notifications, cancel_notifications>>

delete_exception(session_tutor, exception_id) ==
    LET found == {e \in tutor_exceptions : e.id = exception_id} IN
    IF found = {}
    THEN /\ portal_flash' = NotFound
         /\ UNCHANGED tutor_exceptions
    ELSE IF session_tutor \notin tutor_ids
    THEN /\ portal_flash' = ServerError
         /\ UNCHANGED tutor_exceptions
    ELSE IF \E e \in found : e.tutor_id # session_tutor
    THEN /\ portal_flash' = FlashNotOwnExc
         /\ UNCHANGED tutor_exceptions
    ELSE /\ portal_flash' = FlashExcRemoved
         /\ tutor_exceptions' = tutor_exceptions \ found

DeleteException ==
    /\ \E session_tutor \in Tutors, exception_id \in 1..(MaxExceptions + 1) :
         delete_exception(session_tutor, exception_id)
    /\ UNCHANGED probes
    /\ UNCHANGED <<tutor_ids, is_active, tutor_subjects, weekly_availability,
                   bookings, next_booking_id, slot_minutes, utcnow, pc, req,
                   committed, booking_notifications, cancel_notifications>>

NextBlackouts == AddException \/ DeleteException

SpecBlackouts == Init /\ [][NextBlackouts]_vars

\* A form that gives exactly one of the two bounds.
OneBound(form) == (form.start_time = "") # (form.end_time = "")

\* C23: every TutorException row stored after any sequence of add_exception
\* and delete_exception requests has either no start_time and no end_time, or
\* both with end_time after start_time; an add_exception request that gives
\* exactly one of the two is rejected and stores nothing.
C23_ExceptionsWellFormed ==
    /\ [](\A e \in tutor_exceptions :
            \/ e.start_time = None /\ e.end_time = None
            \/ /\ e.start_time # None /\ e.end_time # None
               /\ e.end_time > e.start_time)
    /\ [](\A session_tutor \in Tutors, form \in ExceptionForms,
             commit_fails \in BOOLEAN :
            OneBound(form) =>
                add_exception_flash(session_tutor, form, commit_fails)
                    \in {FlashBadExcDate, FlashBothTimes})
    /\ [][tutor_exceptions' # tutor_exceptions
            => portal_flash' \in {FlashExcAdded, FlashExcRemoved}]_vars

\* C23 witness: with a full-day and a partial blackout stored, a request that
\* gave one bound only has been turned down.
C23_Witness ==
    /\ portal_flash = FlashBothTimes
    /\ \E e \in tutor_exceptions : e.start_time = None /\ e.end_time = None
    /\ \E e \in tutor_exceptions : e.start_time # None /\ e.end_time # None


\* C24: whenever is_available_for_slot(tutor, start, end) returns true, the
\* whole interval [start, end) lies on start's calendar date and inside one
\* weekly block of the tutor for that weekday, taken as instants on that date
\* (block start <= start and end <= block end), also when start plus the slot
\* length passes midnight.
C24_WholeIntervalInBlock ==
    (slot_check.called /\ slot_check.available) =>
        LET date == slot_check.start_dt \div DayLen IN
        /\ slot_check.end_dt <= (date + 1) * DayLen
        /\ \E block \in weekly_availability :
             /\ block.tutor_id = slot_check.tutor_id
             /\ block.day_of_week = date % 7
             /\ date * DayLen + block.start_time <= slot_check.start_dt
             /\ slot_check.end_dt <= date * DayLen + block.end_time


\* Start s is one of the slot starts generated from a block of tutor t on
\* s's weekday.
OnGrid(t, s) ==
    \E block \in weekly_availability :
        /\ block.tutor_id = t
        /\ block.day_of_week = (s \div DayLen) % 7
        /\ \E k \in 0..DayLen :
             /\ s = (s \div DayLen) * DayLen + block.start_time + k * slot_minutes
             /\ s + slot_minutes <= (s \div DayLen) * DayLen + block.end_time

\* C25: the start time of every Booking that book commits is a key of
\* collect_open_slots(subject, date) that lists the assigned tutor, on the
\* store as the request read it; book never commits a start time that is off
\* the slot grid generated from the tutor's blocks.
C25_CommitsOpenSlotsOnly ==
    [][\A r \in BookReqs :
          /\ (pc[r] # "added" /\ pc'[r] = "added") =>
                LET m == collect_open_slots(req'[r].subject_id,
                                            req'[r].start_time \div DayLen)
                IN  /\ req'[r].start_time \in DOMAIN m
                    /\ \E e \in m[req'[r].start_time] : e[1] = req'[r].tutor_id
          /\ (pc[r] = "added" /\ pc'[r] = "committed") =>
                \A b \in bookings' \ bookings : OnGrid(b.tutor_id, b.start_time)]_vars


\* ------------------------------------------------------------- SpecRetry
\* One caller who posts the same form again whenever the last request came
\* back, on stores that earlier bookings and cancellations have left.
RetryForm == GoodForm
RetryNow == [date |-> Today, time |-> 0]
RetryStart == Combine(DateStrings[RetryForm.date], TimeStrings[RetryForm.start_time])

\* Rows of earlier requests: at the requested start or a week later,
\* canceled since or not.
RetryBookingRows ==
    {[id |-> 2 * tutor + w - 1, tutor_id |-> tutor, subject_id |-> 1,
      student_name |-> "Ann", student_phone |-> "5550100",
      start_time |-> RetryStart + 7 * w * DayLen,
      end_time |-> RetryStart + 7 * w * DayLen + SlotLen,
      is_canceled |-> c, canceled_at |-> IF c THEN 1 ELSE None,
      cancel_reason |-> None] : tutor \in Tutors, w \in {0, 1}, c \in BOOLEAN}

RetryIds == 1..(2 * Cardinality(Tutors) + MaxBookings)

InitRetry ==
    /\ tutor_ids = Tutors
    /\ is_active = [t \in Tutors |-> TRUE]
    /\ tutor_subjects = {<<t, 1>> : t \in Tutors}
    /\ weekly_availability =
           {[id |-> t, tutor_id |-> t, day_of_week |-> Weekday(Today + 1),
             start_time |-> 0, end_time |-> DayLen - 1] : t \in Tutors}
    /\ tutor_exceptions = {}
    /\ bookings \in {bs \in BoundedSubsets(RetryBookingRows, MaxBookings) :
                        \A b1, b2 \in bs : b1.id = b2.id => b1 = b2}
    /\ next_booking_id = 2 * Cardinality(Tutors) + 1
    /\ slot_minutes = SlotLen
    /\ utcnow = 2
    /\ pc = [r \in BookReqs |-> "idle"]
    /\ req = [r \in BookReqs |-> IdleReq]
    /\ committed = {b.id : b \in bookings}
    /\ booking_notifications = [i \in RetryIds |-> IF i \in committed THEN 1 ELSE 0]
    /\ cancel_notifications =
           [i \in RetryIds |-> IF \E b \in bookings : b.id = i /\ b.is_canceled
                               THEN 1 ELSE 0]
    /\ portal_flash = NoFlash
    /\ slot_check = NoCall
    /\ call = NoQuery

\* book, lines 106-164, for one given form at one clock reading (the forms it
\* is used with name few slots, and a slot takes a row per tutor at most, so
\* the table stays bounded by itself).
BookForm(r, form, now) ==
    /\ pc[r] \in {"idle", "done"}
    /\ LET v == book_validate(form, now)
           candidates ==
               available_tutors_for_slot(v.subject_id, v.start_time, v.end_time)
       IN  IF v.cause # "none"
           THEN /\ pc' = [pc EXCEPT ![r] = "done"]
                /\ req' = [req EXCEPT ![r] = v]
           ELSE IF pick_fair_tutor(candidates) = {}
           THEN /\ pc' = [pc EXCEPT ![r] = "done"]
                /\ req' = [req EXCEPT ![r] = Rejected(FlashJustBooked, "capacity")]
           ELSE \E tutor \in pick_fair_tutor(candidates) :
                    /\ pc' = [pc EXCEPT ![r] = "added"]
                    /\ req' = [req EXCEPT ![r] = [v EXCEPT !.tutor_id = tutor]]
    /\ UNCHANGED probes
    /\ UNCHANGED <<store, slot_minutes, utcnow, committed,
                   booking_notifications, cancel_notifications, portal_flash>>

BookAgain(r) == BookForm(r, RetryForm, RetryNow)

NextRetry ==
    \/ BookAgain("r1")
    \/ BookCommit("r1")
    \/ BookNotify("r1")

\* The caller keeps posting and every call returns; a storage error does not
\* come back for ever, and random.choice does not leave out a tutor for ever.
SpecRetry ==
    /\ InitRetry /\ [][NextRetry]_vars
    /\ WF_vars(BookAgain("r1"))
    /\ WF_vars(BookCommit("r1"))
    /\ WF_vars(BookNotify("r1"))
    /\ SF_vars(BookCommit("r1") /\ pc'["r1"] = "committed")
    /\ \A t \in Tutors : SF_vars(BookAgain("r1") /\ req'["r1"].tutor_id = t)

\* C26: with no other request running, if some tutor eligible for the slot has
\* no Booking row, canceled or not, at the requested start, then the request
\* for that slot, restarted by the caller from a fresh availability read each
\* time it fails, eventually ends with a persisted Booking.
C26_EventuallyBooked ==
    (/\ pc["r1"] = "idle"
     /\ \E t \in available_tutors_for_slot(1, RetryStart, RetryStart + slot_minutes) :
            ~KeyTaken(t, RetryStart))
    ~> (req["r1"].cause = "ok")


\* C27: in every mapping collect_open_slots returns, a tutor appears at most
\* once in the list of a slot start, whatever weekly blocks of the tutor are
\* stored for the weekday (overlapping or duplicate ones too), so that the
\* tutor count the availability endpoint shows for a slot is the number of
\* distinct free tutors.
C27_TutorOncePerSlot ==
    /\ call.op = "collect_open_slots" =>
         \A s \in DOMAIN call.slots :
             \A e1, e2 \in call.slots[s] : e1[1] = e2[1] => e1 = e2
    /\ (call.op = "availability" /\ call.response.status = 200) =>
         \A i \in DOMAIN call.response.slots :
             call.response.slots[i].tutor_count =
                 Cardinality({t \in Tutors :
                     t \in available_tutors_for_slot(call.args.subject_id,
                         DateStrings[call.args.date] * DayLen
                             + call.response.slots[i].value,
                         DateStrings[call.args.date] * DayLen
                             + call.response.slots[i].value + slot_minutes)})


\* -------------------------------------------------------------- SpecLoop
\* generate_slots run statement by statement, for every value
\* BOOKING_SLOT_MINUTES can be given.  The list is kept by its length,
\* counted up to MaxAppends; datetime.min lies one day before Today.
MaxAppends == 3
DatetimeMin == 0 - DayLen

\* Lines 92-96: the frame at the head of the while loop.
SlotsCall ==
    /\ call.op = "generate_slots frame" => call.at \in {"returned", "raised"}
    /\ \E block \in SlotBlocks, date \in ClockDates, step \in SlotMinuteValues :
         call' = [op |-> "generate_slots frame", block |-> block, date |-> date,
                  slot_minutes |-> step,
                  cursor |-> Combine(date, block.start_time),
                  end_dt |-> Combine(date, block.end_time),
                  appended |-> 0, at |-> "while"]
    /\ Untouched

\* Line 97, and line 100 when the test fails: cursor + step raises
\* OverflowError below datetime.min.
SlotsTest ==
    /\ call.op = "generate_slots frame"
    /\ call.at = "while"
    /\ call' =
         IF call.cursor + call.slot_minutes < DatetimeMin
         THEN [call EXCEPT !.at = "raised"]
         ELSE IF call.cursor + call.slot_minutes <= call.end_dt
         THEN [call EXCEPT !.at = "append"]
         ELSE [call EXCEPT !.at = "returned"]
    /\ Untouched

\* Lines 98-99: the body of the loop.
SlotsAppend ==
    /\ call.op = "generate_slots frame"
    /\ call.at = "append"
    /\ call' = [call EXCEPT !.cursor = call.cursor + call.slot_minutes,
                            !.appended = IF @ < MaxAppends THEN @ + 1 ELSE @,
                            !.at = "while"]
    /\ Untouched

NextLoop == SlotsCall \/ SlotsTest \/ SlotsAppend

\* The interpreter goes on with a loop it has entered.
SpecLoop ==
    /\ Init /\ [][NextLoop]_vars
    /\ WF_vars(SlotsTest) /\ WF_vars(SlotsAppend)

\* C28: generate_slots terminates for every block, date and integer
\* slot_minutes the configuration can supply, zero and negative ones too (and
\* with it collect_open_slots, which calls it for each block).
C28_SlotsTerminate ==
    (call.op = "generate_slots frame" /\ call.at = "while")
    ~> (call.op = "generate_slots frame" /\ call.at \in {"returned", "raised"})


\* ----------------------------------------------------------- SpecBalance
\* Booking requests one at a time, with no cancellations, for two slots in
\* which every tutor is free, from stores in which the tutors already hold
\* bookings (a week later) in different numbers.
BalanceLen == SlotLen - 1
BalanceForms == {[GoodForm EXCEPT !.start_time = t] : t \in {"t0", "t1"}}

BalanceRows ==
    {[id |-> 2 * tutor + k - 1, tutor_id |-> tutor, subject_id |-> 1,
      student_name |-> "Ann", student_phone |-> "5550100",
      start_time |-> RetryStart + 7 * DayLen + k,
      end_time |-> RetryStart + 7 * DayLen + k + BalanceLen,
      is_canceled |-> FALSE, canceled_at |-> None,
      cancel_reason |-> None] : tutor \in Tutors, k \in {0, 1}}

\* The ids of the rows of BalanceRows, and of those and the rows the
\* requests can add.
EarlierIds == 1..(2 * Cardinality(Tutors))
BalanceIds == 1..(2 * Cardinality(Tutors) + 2 * Cardinality(Tutors))

InitBalance ==
    /\ tutor_ids = Tutors
    /\ is_active = [t \in Tutors |-> TRUE]
    /\ tutor_subjects = {<<t, 1>> : t \in Tutors}
    /\ weekly_availability =
           {[id |-> t, tutor_id |-> t, day_of_week |-> Weekday(Today + 1),
             start_time |-> 0, end_time |-> DayLen - 1] : t \in Tutors}
    /\ tutor_exceptions = {}
    /\ bookings \in SUBSET BalanceRows
    /\ next_booking_id = 2 * Cardinality(Tutors) + 1
    /\ slot_minutes = BalanceLen
    /\ utcnow = 1
    /\ pc = [r \in BookReqs |-> "idle"]
    /\ req = [r \in BookReqs |-> IdleReq]
    /\ committed = {b.id : b \in bookings}
    /\ booking_notifications = [i \in BalanceIds |-> IF i \in committed THEN 1 ELSE 0]
    /\ cancel_notifications = [i \in BalanceIds |-> 0]
    /\ portal_flash = NoFlash
    /\ slot_check = NoCall
    /\ call = NoQuery

BookFresh(r) == \E form \in BalanceForms : BookForm(r, form, RetryNow)

NextBalance ==
    \/ BookFresh("r1")
    \/ BookCommit("r1")
    \/ BookNotify("r1")

SpecBalance == InitBalance /\ [][NextBalance]_vars

\* The non-canceled bookings of tutor t among the rows bs.
LoadIn(bs, t) == Cardinality({b \in bs : b.tutor_id = t /\ ~b.is_canceled})

\* The difference of two numbers, and the allowance of C29.
Apart(m, n) == IF m >= n THEN m - n ELSE n - m
AtLeastOne(n) == IF n >= 1 THEN n ELSE 1

\* C29: with book requests running one at a time and no cancellations, each
\* successful booking leaves the non-canceled counts of any two tutors of the
\* request's candidate set no further apart than the larger of one and what
\* they were; and while every request has had every tutor as a candidate, the
\* counts of any two tutors differ by no more than the larger of one and their
\* difference in the initial store (by one at most from equal counts).
C29_LoadsStayClose ==
    /\ [][\A r \in BookReqs :
            (pc[r] = "added" /\ pc'[r] = "committed") =>
                \A t, u \in available_tutors_for_slot(req[r].subject_id,
                                req[r].start_time, req[r].end_time) :
                    Apart(LoadIn(bookings', t), LoadIn(bookings', u))
                        <= AtLeastOne(Apart(LoadIn(bookings, t),
                                            LoadIn(bookings, u)))]_vars
    /\ [](LET earlier == {b \in bookings : b.id \in EarlierIds}
              added == bookings \ earlier
          IN  (\A b1, b2 \in added : b1.start_time = b2.start_time => b1 = b2)
              => \A t, u \in Tutors :
                     Apart(LoadIn(bookings, t), LoadIn(bookings, u))
                         <= AtLeastOne(Apart(LoadIn(earlier, t),
                                             LoadIn(earlier, u))))

\* C29 witness: a tutor who was two bookings behind has been given both new
\* bookings, each by a request that had both tutors as candidates.
C29_Witness ==
    \E t, u \in Tutors :
        LET earlier == {b \in bookings : b.id \in EarlierIds}
            added == bookings \ earlier
        IN  /\ LoadIn(earlier, t) = 0 /\ LoadIn(earlier, u) = 2
            /\ Cardinality(added) = 2
            /\ \A b \in added : b.tutor_id = t
            /\ LoadIn(bookings, t) = LoadIn(bookings, u)


\* C30: a cancel request changes only is_canceled, canceled_at and
\* cancel_reason (at most 255 characters stored) of the one booking it names:
\* that booking's other fields, every other booking, the blocks and the
\* exceptions stay as they are; a cancel request by a tutor who does not own
\* the booking is answered as such and changes nothing.
C30_CancelFrame ==
    /\ [](\A session_tutor \in tutor_ids, b \in bookings :
            b.tutor_id # session_tutor
            => cancel_flash(session_tutor, b.id) = FlashNotOwner)
    /\ [][/\ utcnow' # utcnow =>
               /\ \E b \in bookings, b2 \in bookings' :
                    /\ ~b.is_canceled
                    /\ bookings' = (bookings \ {b}) \cup {b2}
                    /\ b2 = [b EXCEPT !.is_canceled = TRUE,
                                      !.canceled_at = utcnow,
                                      !.cancel_reason = b2.cancel_reason]
                    /\ b2.cancel_reason = None \/ b2.cancel_reason \in 1..ReasonCap
               /\ UNCHANGED <<tutor_ids, is_active, tutor_subjects,
                              weekly_availability, tutor_exceptions,
                              next_booking_id>>
          /\ (portal_flash' = FlashNotOwner /\ portal_flash # FlashNotOwner)
               => UNCHANGED <<store, utcnow, cancel_notifications>>]_vars

\* C30 witness: one booking was canceled with a reason cut to 255 characters,
\* the other one is as it was booked, and a tutor who asked to cancel a
\* booking of another tutor has been turned down.
C30_Witness ==
    /\ portal_flash = FlashNotOwner
    /\ \E b1, b2 \in bookings :
         /\ b1.is_canceled /\ b1.cancel_reason = ReasonCap
         /\ ~b2.is_canceled /\ b2.canceled_at = None /\ b2.cancel_reason = None

=============================================================================
